---- MODULE Spec2Model ----
(***************************************************************************)
(* Model of the ATP data ingestion pipeline (src/data/ingest.ts, kept in   *)
(* src/unnamed/part_001): field normalisation, identifier assignment, the  *)
(* shared player / tournament registries, the match and derived builders.  *)
(*                                                                         *)
(* JavaScript strings are TLA+ strings; a character is a string of length  *)
(* one.  A value that may be null / undefined is a sequence of length at   *)
(* most one: << >> is null / undefined / NaN, <<v>> is the value v.        *)
(* A Map is the sequence of its [key, value] entries in insertion order.   *)
(***************************************************************************)
EXTENDS Integers, Sequences, FiniteSets, TLC

(***************************************************************************)
(* Bounds of the model.                                                    *)
(***************************************************************************)
\* rows read by one run of ingest, over all of its input files
MaxRows == 2
\* input files (batches) found by one run
MaxFiles == 2
\* calls of createPlayerID made on one counter map by CallCreatePlayerID
MaxCalls == 4
\* the calls of findChildrenForMatch the call stack can nest
MaxStack == 12
\* the matches added to a draw before its brackets are generated
MaxBracketMatches == 2
\* the tournaments of a tournaments.json read by addCommonNames
MaxTournaments == 2
\* the runs of addCommonNames on one tournaments.json
MaxPasses == 2
\* the bracket fetches of BracketPage that are under way at one time
MaxFetches == 3

(***************************************************************************)
(* Strings.                                                                *)
(***************************************************************************)
\* The one element of a singleton set.  Only({ f(x) : x \in {e} }) is f(e)
\* with e evaluated once, where LET x == e IN f(x) evaluates e at every use
\* of x.
Only(S) == CHOOSE x \in S : TRUE

Null == << >>
Some(v) == <<v>>
IsNull(o) == o = << >>
Val(o) == o[1]

Ch(s, i) == SubSeq(s, i, i)
CharsOf(s) == { Ch(s, i) : i \in 1..Len(s) }

UpperChars == "ABCDEFGHIJKLMNOPQRSTUVWXYZ"
LowerChars == "abcdefghijklmnopqrstuvwxyz"
DigitChars == "0123456789"
\* \s of a JavaScript regular expression, and what String.trim removes
SpaceChars == {" ", "\t", "\n", "\r"}
\* \w of a JavaScript regular expression
WordChars == CharsOf(UpperChars) \cup CharsOf(LowerChars) \cup CharsOf(DigitChars) \cup {"_"}

\* position of character c in the table s, which holds every character once;
\* 0 when c is not in it
IndexOf(c, s) ==
  IF \E i \in 1..Len(s) : Ch(s, i) = c
  THEN CHOOSE i \in 1..Len(s) : Ch(s, i) = c
  ELSE 0

LowerTable == [c \in CharsOf(UpperChars) |-> Ch(LowerChars, IndexOf(c, UpperChars))]
UpperTable == [c \in CharsOf(LowerChars) |-> Ch(UpperChars, IndexOf(c, LowerChars))]
DigitTable == [c \in CharsOf(DigitChars) |-> IndexOf(c, DigitChars) - 1]

LowerChar(c) == IF c \in DOMAIN LowerTable THEN LowerTable[c] ELSE c

UpperChar(c) == IF c \in DOMAIN UpperTable THEN UpperTable[c] ELSE c

RECURSIVE toLowerCase(_)
toLowerCase(s) ==
  IF s = "" THEN "" ELSE LowerChar(Ch(s, 1)) \o toLowerCase(Tail(s))

RECURSIVE toUpperCase(_)
toUpperCase(s) ==
  IF s = "" THEN "" ELSE UpperChar(Ch(s, 1)) \o toUpperCase(Tail(s))

RECURSIVE TrimStart(_)
TrimStart(s) ==
  IF s # "" /\ Ch(s, 1) \in SpaceChars THEN TrimStart(Tail(s)) ELSE s

RECURSIVE TrimEnd(_)
TrimEnd(s) ==
  IF s # "" /\ Ch(s, Len(s)) \in SpaceChars
  THEN TrimEnd(SubSeq(s, 1, Len(s) - 1))
  ELSE s

trim(s) == TrimEnd(TrimStart(s))

\* String.prototype.includes
includes(s, sub) ==
  \E i \in 1..(Len(s) - Len(sub) + 1) : SubSeq(s, i, i + Len(sub) - 1) = sub

\* String.prototype.split on a one-character separator: the sequence of parts
RECURSIVE SplitFrom(_, _, _, _)
SplitFrom(s, sep, i, cur) ==
  IF i > Len(s) THEN <<cur>>
  ELSE IF Ch(s, i) = sep THEN <<cur>> \o SplitFrom(s, sep, i + 1, "")
  ELSE SplitFrom(s, sep, i + 1, cur \o Ch(s, i))

split(s, sep) == SplitFrom(s, sep, 1, "")

\* s.replace(/[set]/g, ''): every character of the set removed
RECURSIVE RemoveChars(_, _)
RemoveChars(s, set) ==
  IF s = "" THEN ""
  ELSE (IF Ch(s, 1) \in set THEN "" ELSE Ch(s, 1)) \o RemoveChars(Tail(s), set)

\* s.replace(/[^set]/g, ''): only the characters of the set kept
RECURSIVE KeepChars(_, _)
KeepChars(s, set) ==
  IF s = "" THEN ""
  ELSE (IF Ch(s, 1) \in set THEN Ch(s, 1) ELSE "") \o KeepChars(Tail(s), set)

\* s.replace(/[set]+/g, '-'): every maximal run of characters of the set
\* replaced by one hyphen
RECURSIVE RunsToHyphen(_, _, _)
RunsToHyphen(s, set, inRun) ==
  IF s = "" THEN ""
  ELSE IF Ch(s, 1) \in set
       THEN (IF inRun THEN "" ELSE "-") \o RunsToHyphen(Tail(s), set, TRUE)
       ELSE Ch(s, 1) \o RunsToHyphen(Tail(s), set, FALSE)

\* decimal digits of a natural number, as Number.prototype.toString gives them
RECURSIVE DecStr(_)
DecStr(n) ==
  IF n < 10 THEN Ch(DigitChars, n + 1)
  ELSE DecStr(n \div 10) \o Ch(DigitChars, (n % 10) + 1)

\* String.prototype.padStart(width, '0') of a natural number
RECURSIVE PadZero(_, _)
PadZero(s, width) == IF Len(s) >= width THEN s ELSE PadZero("0" \o s, width)

IsDigit(c) == c \in DOMAIN DigitTable
DigitVal(c) == DigitTable[c]

\* value of a string of decimal digits
RECURSIVE DigitsVal(_, _)
DigitsVal(s, acc) ==
  IF s = "" THEN acc ELSE DigitsVal(Tail(s), acc * 10 + DigitVal(Ch(s, 1)))

\* the longest prefix of s made of decimal digits
RECURSIVE DigitPrefix(_)
DigitPrefix(s) ==
  IF s # "" /\ IsDigit(Ch(s, 1)) THEN Ch(s, 1) \o DigitPrefix(Tail(s)) ELSE ""

\* parseInt(s): leading white space skipped, an optional sign, then the
\* leading decimal digits; NaN (Null) when there is none.  (The model's
\* inputs hold no "0x" prefix, the one case parseInt reads in base 16.)
parseInt(s) ==
  LET t == TrimStart(s)
      neg == t # "" /\ Ch(t, 1) = "-"
      u == IF t # "" /\ Ch(t, 1) \in {"-", "+"} THEN Tail(t) ELSE t
      ds == DigitPrefix(u)
  IN  IF ds = "" THEN Null
      ELSE Some(IF neg THEN 0 - DigitsVal(ds, 0) ELSE DigitsVal(ds, 0))

\* Number(s) for a trimmed non-empty string: the model's inputs are strings
\* of decimal digits, which Number reads in base 10, and strings holding a
\* letter or a '/', which Number reads as NaN (Null).
Number(s) ==
  IF s # "" /\ \A i \in 1..Len(s) : IsDigit(Ch(s, i))
  THEN Some(DigitsVal(s, 0))
  ELSE Null

(***************************************************************************)
(* Normalizer.                                                             *)
(***************************************************************************)
normalizeValue(value) ==
  IF value = "" \/ trim(value) = "" \/ toUpperCase(trim(value)) = "N/A"
  THEN Null
  ELSE Some(trim(value))

normalizeNumber(value) ==
  LET normalized == normalizeValue(value)
  IN  IF IsNull(normalized) THEN Null ELSE Number(Val(normalized))

(***************************************************************************)
(* Dates.  new Date(y, m, d) is local midnight of the civil day (y, m, d), *)
(* with month and day overflow carried and a year 0..99 read as 1900+y;    *)
(* toISOString prints the UTC day, which is the day before in a time zone  *)
(* east of Greenwich.  An Invalid Date (a NaN argument) makes toISOString  *)
(* throw a RangeError.                                                     *)
(***************************************************************************)
\* days from 1970-01-01 to the civil day (y, m, d), m in 1..12
DaysFromCivil(y, m, d) ==
  LET yy == IF m <= 2 THEN y - 1 ELSE y
      era == yy \div 400
      yoe == yy - era * 400
      mp == IF m > 2 THEN m - 3 ELSE m + 9
      doy == (153 * mp + 2) \div 5 + d - 1
      doe == yoe * 365 + yoe \div 4 - yoe \div 100 + doy
  IN  era * 146097 + doe - 719468

\* the civil day [y, m, d] of a day number
CivilFromDays(z) ==
  LET zz == z + 719468
      era == zz \div 146097
      doe == zz - era * 146097
      yoe == (doe - doe \div 1460 + doe \div 36524 - doe \div 146096) \div 365
      doy == doe - (365 * yoe + yoe \div 4 - yoe \div 100)
      mp == (5 * doy + 2) \div 153
      d == doy - (153 * mp + 2) \div 5 + 1
      m == IF mp < 10 THEN mp + 3 ELSE mp - 9
      y == yoe + era * 400 + (IF m <= 2 THEN 1 ELSE 0)
  IN  [y |-> y, m |-> m, d |-> d]

\* new Date(year, monthIndex, day): the local day number
MakeDay(year, monthIndex, day) ==
  LET fy == IF year >= 0 /\ year <= 99 THEN 1900 + year ELSE year
      ym == fy + monthIndex \div 12
      mn == monthIndex % 12
  IN  DaysFromCivil(ym, mn + 1, 1) + day - 1

\* date.toISOString().split('T')[0] for a year in 0..9999
IsoDay(z) ==
  LET c == CivilFromDays(z)
  IN  PadZero(DecStr(c.y), 4) \o "-" \o PadZero(DecStr(c.m), 2) \o "-" \o PadZero(DecStr(c.d), 2)

\* new Date(parseInt(y), parseInt(m) - 1, parseInt(d)).toISOString().split('T')[0]
\* with a missing part undefined: [ok |-> FALSE] is the RangeError thrown
DateToIso(y, m, d, east) ==
  LET py == IF IsNull(y) THEN Null ELSE parseInt(Val(y))
      pm == IF IsNull(m) THEN Null ELSE parseInt(Val(m))
      pd == IF IsNull(d) THEN Null ELSE parseInt(Val(d))
  IN  IF IsNull(py) \/ IsNull(pm) \/ IsNull(pd)
      THEN [ok |-> FALSE, value |-> ""]
      ELSE [ok |-> TRUE,
            value |-> IsoDay(MakeDay(Val(py), Val(pm) - 1, Val(pd)) - (IF east THEN 1 ELSE 0))]

Part(parts, i) == IF i <= Len(parts) THEN Some(parts[i]) ELSE Null

\* parseDate(dateStr): [ok, value]; ok = FALSE when it throws
parseDate(dateStr, east) ==
  LET normalized == normalizeValue(dateStr)
  IN  IF IsNull(normalized) THEN [ok |-> TRUE, value |-> ""]
      ELSE
        LET n == Val(normalized)
            hy == split(n, "-")
            parts == split(n, "/")
        IN  IF includes(n, "-") /\ Len(hy[1]) = 4
            THEN DateToIso(Part(hy, 1), Part(hy, 2), Part(hy, 3), east)
            ELSE IF Len(parts) = 3
            THEN LET year == parts[3]
                     fullYear == IF Len(year) = 2 THEN "20" \o year ELSE year
                 IN  DateToIso(Some(fullYear), Some(parts[1]), Some(parts[2]), east)
            ELSE [ok |-> TRUE, value |-> ""]

(***************************************************************************)
(* Identifiers.                                                            *)
(***************************************************************************)
slugify(text) ==
  LET a == toLowerCase(text)
      b == RemoveChars(a, {"."})
      c == KeepChars(b, WordChars \cup SpaceChars \cup {"-"})
      d == RunsToHyphen(c, SpaceChars, FALSE)
      e == RunsToHyphen(d, {"-"}, FALSE)
  IN  trim(e)

\* a Map as the sequence of its entries in insertion order
MapHas(map, key) == \E i \in 1..Len(map) : map[i].key = key
MapGet(map, key) == map[CHOOSE i \in 1..Len(map) : map[i].key = key].value
MapSet(map, key, value) ==
  IF MapHas(map, key)
  THEN [i \in 1..Len(map) |->
          IF map[i].key = key THEN [key |-> key, value |-> value] ELSE map[i]]
  ELSE Append(map, [key |-> key, value |-> value])
MapValues(map) == [i \in 1..Len(map) |-> map[i].value]

\* createPlayerID(name, existingIDs): the id returned and the counter map
\* as the call leaves it
createPlayerIDWithoutCount(name, existingIDs) ==
  Only({ IF ~MapHas(existingIDs, base)
         THEN [id |-> base, existingIDs |-> MapSet(existingIDs, base, 0)]
         ELSE LET count == MapGet(existingIDs, base) + 1
              IN  [id |-> base \o "-" \o DecStr(count), existingIDs |-> existingIDs]
         : base \in {slugify(name)} })

createPlayerID(name, existingIDs) ==
  Only({ IF ~MapHas(existingIDs, base)
         THEN [id |-> base, existingIDs |-> MapSet(existingIDs, base, 0)]
         ELSE LET count == MapGet(existingIDs, base) + 1
              IN  [id |-> base \o "-" \o DecStr(count),
                   existingIDs |-> MapSet(existingIDs, base, count)]
         : base \in {slugify(name)} })

\* charCodeAt for the printable ASCII characters ('"', '\' and '`' excepted)
CharCodeTable ==
  LET b1 == " !"
      b2 == "#$%&'()*+,-./0123456789:;<=>?@ABCDEFGHIJKLMNOPQRSTUVWXYZ["
      b3 == "]^_"
      b4 == "abcdefghijklmnopqrstuvwxyz{|}~"
  IN  [c \in CharsOf(b1) \cup CharsOf(b2) \cup CharsOf(b3) \cup CharsOf(b4) |->
         IF IndexOf(c, b1) # 0 THEN 31 + IndexOf(c, b1)
         ELSE IF IndexOf(c, b2) # 0 THEN 34 + IndexOf(c, b2)
         ELSE IF IndexOf(c, b3) # 0 THEN 92 + IndexOf(c, b3)
         ELSE 96 + IndexOf(c, b4)]

charCode(c) == CharCodeTable[c]

\* A 32-bit integer is the pair <<hi, lo>> of the 16-bit halves of its
\* two's-complement bit pattern: the JavaScript operations below wrap at
\* 2^32, which the halves compute without leaving TLC's integers.
Half == 65536
Zero32 == <<0, 0>>

\* hash << 4
Shl4(h) ==
  LET lo == h[2] * 16
  IN  <<(h[1] * 16 + lo \div Half) % Half, lo % Half>>

\* hash << 5
Shl5(h) ==
  LET lo == h[2] * 32
  IN  <<(h[1] * 32 + lo \div Half) % Half, lo % Half>>

\* a - b, as ToInt32 leaves it
Sub32(a, b) ==
  LET lo == a[2] - b[2]
      borrow == IF lo < 0 THEN 1 ELSE 0
  IN  <<(a[1] - b[1] - borrow + 2 * Half) % Half, (lo + Half) % Half>>

\* a + c for a character code c, as ToInt32 leaves it
Add32(a, c) ==
  LET lo == a[2] + c
  IN  <<(a[1] + lo \div Half) % Half, lo % Half>>

IsNegative32(a) == a[1] >= Half \div 2

\* Math.abs of the signed value, an unsigned pair (2^31 for -2^31)
Abs32(a) == IF IsNegative32(a) THEN Sub32(Zero32, a) ELSE a

\* decimal digits of an unsigned pair
RECURSIVE DecStr32(_)
DecStr32(a) ==
  IF a[1] = 0 THEN DecStr(a[2])
  ELSE LET qhi == a[1] \div 10
           t == (a[1] % 10) * Half + a[2]
       IN  DecStr32(<<qhi, t \div 10>>) \o Ch(DigitChars, (t % 10) + 1)

\* one pass of the loop of createTournamentID / createMatchID, at index i
\* (from 1) of str, if the loop gets that far:
\* hash = ((hash << 5) - hash) + char; hash = hash & hash
HashStep(str, i, hash) ==
  IF i > Len(str) THEN hash
  ELSE Add32(Sub32(Shl5(hash), hash), charCode(Ch(str, i)))

\* the loop from index i on, eight passes to a level of the recursion
RECURSIVE HashFrom(_, _, _)
HashFrom(str, i, hash) ==
  IF i > Len(str) THEN hash
  ELSE Only({ HashFrom(str, i + 8, next)
              : next \in {HashStep(str, i + 7, HashStep(str, i + 6, HashStep(str, i + 5,
                          HashStep(str, i + 4, HashStep(str, i + 3, HashStep(str, i + 2,
                          HashStep(str, i + 1, HashStep(str, i, hash))))))))} })

HashOf(str) == Only({ HashFrom(s, 1, Zero32) : s \in {str} })

createTournamentID(year, tournament, location) ==
  LET str == DecStr(year) \o "-" \o tournament \o "-" \o location
  IN  "t" \o DecStr32(Abs32(HashOf(str)))

createMatchID(tournamentId, date, round, winnerId, loserId) ==
  LET str == tournamentId \o "-" \o date \o "-" \o round \o "-" \o winnerId \o "-" \o loserId
  IN  "m" \o DecStr32(Abs32(HashOf(str)))

(***************************************************************************)
(* Categorical fields.                                                     *)
(***************************************************************************)
normalizeRound(round) ==
  LET normalized == trim(toLowerCase(round))
  IN  IF includes(normalized, "1st round") \/ normalized = "1r" THEN "1R"
      ELSE IF includes(normalized, "2nd round") \/ normalized = "2r" THEN "2R"
      ELSE IF includes(normalized, "3rd round") \/ normalized = "3r" THEN "3R"
      ELSE IF includes(normalized, "4th round") \/ normalized = "4r" THEN "4R"
      ELSE IF includes(normalized, "quarterfinal") \/ normalized = "qf" THEN "QF"
      ELSE IF includes(normalized, "semifinal") \/ normalized = "sf" THEN "SF"
      ELSE IF includes(normalized, "the final")
              \/ (includes(normalized, "final") /\ ~includes(normalized, "semifinal"))
           THEN "F"
      ELSE IF includes(normalized, "round robin") \/ normalized = "rr" THEN "RR"
      ELSE IF normalized = "q1" \/ includes(normalized, "qualifying 1") THEN "Q1"
      ELSE IF normalized = "q2" \/ includes(normalized, "qualifying 2") THEN "Q2"
      ELSE IF normalized = "q3" \/ includes(normalized, "qualifying 3") THEN "Q3"
      ELSE "1R"

normalizeSeries(series) ==
  LET normalized == trim(toUpperCase(series))
  IN  IF includes(normalized, "GRAND SLAM") THEN "Grand Slam"
      ELSE IF includes(normalized, "MASTERS") THEN "Masters"
      ELSE IF includes(normalized, "ATP500") THEN "ATP500"
      ELSE IF includes(normalized, "ATP250") THEN "ATP250"
      ELSE "ATP250"

normalizeCourt(court) ==
  LET normalized == trim(toUpperCase(court))
  IN  IF includes(normalized, "INDOOR") THEN "Indoor" ELSE "Outdoor"

normalizeSurface(surface) ==
  LET normalized == trim(toUpperCase(surface))
  IN  IF includes(normalized, "HARD") THEN "Hard"
      ELSE IF includes(normalized, "CLAY") THEN "Clay"
      ELSE IF includes(normalized, "GRASS") THEN "Grass"
      ELSE IF includes(normalized, "CARPET") THEN "Carpet"
      ELSE "Hard"

(***************************************************************************)
(* Derived statistics.                                                     *)
(***************************************************************************)
\* JavaScript truthiness of an optional number: undefined and 0 are falsy
Truthy(o) == ~IsNull(o) /\ Val(o) # 0

\* (a && b) ? a - b : null, then ?? undefined
DiffIfBoth(a, b) == IF Truthy(a) /\ Truthy(b) THEN Some(Val(a) - Val(b)) ELSE Null

\* (wRank && lRank) ? lRank < wRank : undefined
UpsetOf(wRank, lRank) ==
  IF Truthy(wRank) /\ Truthy(lRank) THEN Some(Val(lRank) < Val(wRank)) ELSE Null

RECURSIVE SumGames(_, _, _)
SumGames(w, l, i) ==
  IF i > Len(w) THEN 0
  ELSE w[i] + (IF i <= Len(l) THEN l[i] ELSE 0) + SumGames(w, l, i + 1)

computeDerived(match) ==
  LET totalGames == SumGames(match.w, match.l, 1)
  IN  [matchId |-> match.id,
       rankDiff |-> DiffIfBoth(match.wRank, match.lRank),
       ptsDiff |-> DiffIfBoth(match.wPts, match.lPts),
       totalGames |-> IF totalGames > 0 THEN Some(totalGames) ELSE Null,
       setsPlayed |-> match.wsets + match.lsets,
       straightSets |-> match.lsets = 0,
       hasTiebreak |->
         \E i \in 1..Len(match.w) :
           LET wi == match.w[i]
               li == IF i <= Len(match.l) THEN match.l[i] ELSE 0
           IN  (wi = 7 /\ li >= 5) \/ (li = 7 /\ wi >= 5),
       upset |-> UpsetOf(match.wRank, match.lRank)]

(***************************************************************************)
(* Bracket generation.                                                     *)
(***************************************************************************)
\* roundPrecedence[round]: the round that feeds into round, Null (undefined)
\* for a round that is no key of the table
roundPrecedenceCyclic(round) ==
  CASE round = "F" -> Some("SF")
    [] round = "SF" -> Some("F")
    [] OTHER -> Null

roundPrecedence(round) ==
  CASE round = "F" -> Some("SF")
    [] round = "SF" -> Some("QF")
    [] round = "QF" -> Some("4R")
    [] round = "4R" -> Some("3R")
    [] round = "3R" -> Some("2R")
    [] round = "2R" -> Some("1R")
    [] round = "1R" -> Some("Q3")
    [] round = "Q3" -> Some("Q2")
    [] round = "Q2" -> Some("Q1")
    [] OTHER -> Null

\* Array.prototype.join(' ')
RECURSIVE JoinSpace(_)
JoinSpace(strs) ==
  IF strs = << >> THEN ""
  ELSE IF Len(strs) = 1 THEN strs[1]
  ELSE strs[1] \o " " \o JoinSpace(Tail(strs))

\* a score with no mark of a retirement
formatScoreWithoutSuffix(w, l, comment) ==
  JoinSpace([i \in 1..Len(w) |-> DecStr(w[i]) \o "-" \o DecStr(l[i])])

formatScore(w, l, comment) ==
  LET sets == [i \in 1..Len(w) |->
                 DecStr(w[i]) \o "-" \o (IF i <= Len(l) THEN DecStr(l[i]) ELSE "undefined")]
  IN  IF comment = Some("Retired") THEN JoinSpace(sets) \o " (RET)" ELSE JoinSpace(sets)

\* new Map(allPlayers.map((p) => [p.id, p]))
RECURSIVE PlayerMapOf(_, _)
PlayerMapOf(allPlayers, map) ==
  IF allPlayers = << >> THEN map
  ELSE PlayerMapOf(Tail(allPlayers), MapSet(map, Head(allPlayers).id, Head(allPlayers)))

\* playerMap.get(id)?.name || 'Unknown'
PlayerNameOf(playerMap, id) ==
  IF MapHas(playerMap, id) /\ MapGet(playerMap, id).name # ""
  THEN MapGet(playerMap, id).name
  ELSE "Unknown"

\* a search that returns the last match of the round the player won
PrevMatchLast(allTournamentMatches, childRound, id) ==
  LET hits == { i \in 1..Len(allTournamentMatches) :
                  /\ allTournamentMatches[i].round = childRound
                  /\ allTournamentMatches[i].winnerId = id }
  IN  IF hits = {} THEN Null
      ELSE Some(allTournamentMatches[CHOOSE i \in hits : \A j \in hits : i >= j])

\* allTournamentMatches.find((m) => m.round === childRound && m.winnerId === id)
PrevMatch(allTournamentMatches, childRound, id) ==
  LET hits == { i \in 1..Len(allTournamentMatches) :
                  /\ allTournamentMatches[i].round = childRound
                  /\ allTournamentMatches[i].winnerId = id }
  IN  IF hits = {} THEN Null
      ELSE Some(allTournamentMatches[CHOOSE i \in hits : \A j \in hits : i <= j])

\* a BYE leaf that does not say which round the bye was in
ByeNodeWithoutRound(playerName, childRound) ==
  [name |-> playerName,
   attributes |-> [round |-> "BYE", winnerName |-> playerName,
                   loserName |-> "BYE", score |-> "BYE"],
   children |-> << >>]

ByeNode(playerName, childRound) ==
  [name |-> playerName,
   attributes |-> [round |-> childRound, winnerName |-> playerName,
                   loserName |-> "BYE", score |-> "BYE"],
   children |-> << >>]

MatchNode(currentMatch, playerMap, children) ==
  LET winnerName == PlayerNameOf(playerMap, currentMatch.winnerId)
      loserName == PlayerNameOf(playerMap, currentMatch.loserId)
  IN  [name |-> winnerName \o " d. " \o loserName,
       attributes |-> [round |-> currentMatch.round,
                       winnerName |-> winnerName,
                       loserName |-> loserName,
                       score |-> formatScore(currentMatch.w, currentMatch.l,
                                             currentMatch.comment)],
       children |-> children]

\* what a call nested deeper than the call stack allows leaves in the tree
StackOverflowNode ==
  [name |-> "RangeError",
   attributes |-> [round |-> "RangeError", winnerName |-> "RangeError",
                   loserName |-> "RangeError", score |-> "RangeError"],
   children |-> << >>]

\* children: [child1, child2], the winner's side first
BracketChildrenFoundOnly(child1, child2) ==
  SelectSeq(<<child1, child2>>, LAMBDA c : c.attributes.score # "BYE")

BracketChildrenLoserFirst(child1, child2) == <<child2, child1>>

BracketChildren(child1, child2) == <<child1, child2>>

\* findChildrenForMatch(currentMatch, allTournamentMatches, playerMap), the
\* call being nested depth deep; a call nested deeper than MaxStack
\* overflows the call stack
RECURSIVE findChildrenForMatch(_, _, _, _)
findChildrenForMatch(currentMatch, allTournamentMatches, playerMap, depth) ==
  IF depth > MaxStack THEN StackOverflowNode
  ELSE
    LET childRound == roundPrecedence(currentMatch.round)
    IN  IF IsNull(childRound) THEN MatchNode(currentMatch, playerMap, << >>)
        ELSE
          LET winnerPrevMatch ==
                PrevMatch(allTournamentMatches, Val(childRound), currentMatch.winnerId)
              loserPrevMatch ==
                PrevMatch(allTournamentMatches, Val(childRound), currentMatch.loserId)
              child1 ==
                IF ~IsNull(winnerPrevMatch)
                THEN findChildrenForMatch(Val(winnerPrevMatch), allTournamentMatches,
                                          playerMap, depth + 1)
                ELSE ByeNode(PlayerNameOf(playerMap, currentMatch.winnerId), Val(childRound))
              child2 ==
                IF ~IsNull(loserPrevMatch)
                THEN findChildrenForMatch(Val(loserPrevMatch), allTournamentMatches,
                                          playerMap, depth + 1)
                ELSE ByeNode(PlayerNameOf(playerMap, currentMatch.loserId), Val(childRound))
          IN  MatchNode(currentMatch, playerMap, BracketChildren(child1, child2))

\* the matches of one tournament, in the order of allMatches
TournamentMatches(allMatches, tournament) ==
  SelectSeq(allMatches, LAMBDA m : m.tournamentId = tournament.id)

HasRound(tournamentMatches, round) ==
  \E i \in 1..Len(tournamentMatches) : tournamentMatches[i].round = round

FinalMatch(tournamentMatches) ==
  tournamentMatches[CHOOSE i \in 1..Len(tournamentMatches) :
                      /\ tournamentMatches[i].round = "F"
                      /\ \A j \in 1..(i - 1) : tournamentMatches[j].round # "F"]

\* a tournament with matches and no Final: is the skip warned about
WarnsAlways(tournamentMatches) == TRUE

WarnsNoFinal(tournamentMatches) == ~HasRound(tournamentMatches, "RR")

\* the loop of generateBracketData from tournament i on: files is the Map
\* file name -> tree written so far, warnings the console.warn calls so far
RECURSIVE BracketLoop(_, _, _, _, _)
BracketLoop(allMatches, playerMap, allTournaments, i, acc) ==
  IF i > Len(allTournaments) THEN acc
  ELSE
    LET tournament == allTournaments[i]
        tournamentMatches == TournamentMatches(allMatches, tournament)
        next ==
          IF Len(tournamentMatches) = 0 THEN acc
          ELSE IF ~HasRound(tournamentMatches, "F")
          THEN IF WarnsNoFinal(tournamentMatches)
               THEN [acc EXCEPT !.warnings = Append(@, tournament.name)]
               ELSE acc
          ELSE [acc EXCEPT !.files =
                  MapSet(@, tournament.id,
                         findChildrenForMatch(FinalMatch(tournamentMatches),
                                              tournamentMatches, playerMap, 1))]
    IN  BracketLoop(allMatches, playerMap, allTournaments, i + 1, next)

generateBracketData(allMatches, allPlayers, allTournaments) ==
  BracketLoop(allMatches, PlayerMapOf(allPlayers, << >>), allTournaments, 1,
              [files |-> << >>, warnings |-> << >>])


(***************************************************************************)
(* addCommonNames.  A JSON object is the sequence of its fields in key      *)
(* order, as JSON.parse gives and JSON.stringify writes them.               *)
(***************************************************************************)
ObjHas(obj, key) == \E i \in 1..Len(obj) : obj[i].key = key
ObjGet(obj, key) ==
  IF ObjHas(obj, key) THEN Some(obj[CHOOSE i \in 1..Len(obj) : obj[i].key = key].value)
  ELSE Null
\* { ...obj, key: value }: a key of obj keeps its place, a new key comes last
ObjSet(obj, key, value) == MapSet(obj, key, value)
\* const { key: _, ...rest } = obj
ObjRest(obj, key) == SelectSeq(obj, LAMBDA f : f.key # key)

\* entries of nameMap: formal name -> common name
nameMap ==
  << [key |-> "Brisbane International", value |-> "Brisbane International"],
     [key |-> "Hong Kong Tennis Open", value |-> "Hong Kong Open"],
     [key |-> "Adelaide International", value |-> "Adelaide International"],
     [key |-> "ASB Classic", value |-> "Auckland Open"],
     [key |-> "Australian Open", value |-> "Australian Open"],
     [key |-> "BNP Paribas Masters", value |-> "Paris Masters"] >>

\* the name a tournament is looked up by, were it the name it is shown by
FormalNameDisplayed(tournament) ==
  IF ObjHas(tournament, "commonName") THEN ObjGet(tournament, "commonName")
  ELSE ObjGet(tournament, "name")

\* const formalName = tournament.name, Null when undefined
FormalName(tournament) == ObjGet(tournament, "name")

\* a merge that adds common names and removes none
MergeTournamentAdditive(tournament) ==
  LET formalName == FormalName(tournament)
  IN  IF ~IsNull(formalName) /\ MapHas(nameMap, Val(formalName))
      THEN ObjSet(tournament, "commonName", MapGet(nameMap, Val(formalName)))
      ELSE tournament

\* the callback of tournaments.map
MergeTournament(tournament) ==
  LET formalName == FormalName(tournament)
  IN  IF ~IsNull(formalName) /\ MapHas(nameMap, Val(formalName))
      THEN ObjSet(tournament, "commonName", MapGet(nameMap, Val(formalName)))
      ELSE ObjRest(tournament, "commonName")

\* updatedTournaments of the tournaments read from the file
UpdatedTournaments(tournaments) ==
  [i \in 1..Len(tournaments) |-> MergeTournament(tournaments[i])]

(***************************************************************************)
(* One CSV row through the body of ingest's row loop.                      *)
(***************************************************************************)
\* the guard of the row loop: a field that is missing or the empty string
MissingEssential(row) ==
  row.Tournament = "" \/ row.Winner = "" \/ row.Loser = "" \/ row.Date = ""

\* if (!playersMap.has(name)) playersMap.set(name, {id: createPlayerID(..), name})
\* on the registry reg = [playersMap, playerIDs]
ResolvePlayerAlwaysCreate(name, reg) ==
  Only({ [playersMap |-> MapSet(reg.playersMap, name, [id |-> made.id, name |-> name]),
          playerIDs |-> made.existingIDs]
         : made \in {createPlayerID(name, reg.playerIDs)} })

ResolvePlayer(name, reg) ==
  IF MapHas(reg.playersMap, name) THEN reg
  ELSE Only({ [playersMap |-> MapSet(reg.playersMap, name, [id |-> made.id, name |-> name]),
               playerIDs |-> made.existingIDs]
              : made \in {createPlayerID(name, reg.playerIDs)} })

\* const tournamentKey = `${year}-${tournamentName}-${location}`
TournamentKey(year, tournamentName, location) ==
  DecStr(year) \o "-" \o tournamentName \o "-" \o location

\* normalizeValue(field) || fallback
OrElse(o, fallback) == IF IsNull(o) THEN fallback ELSE Val(o)

\* if (!tournamentsMap.has(tournamentKey)) tournamentsMap.set(tournamentKey, {...})
ResolveTournament(year, tournamentName, location, row, tournamentsMap) ==
  Only({ IF MapHas(tournamentsMap, tournamentKey) THEN tournamentsMap
         ELSE MapSet(tournamentsMap, tournamentKey,
                     [id |-> createTournamentID(year, tournamentName, location),
                      year |-> year,
                      name |-> tournamentName,
                      location |-> location,
                      series |-> normalizeSeries(row.Series),
                      court |-> normalizeCourt(row.Court),
                      surface |-> normalizeSurface(row.Surface)])
         : tournamentKey \in {TournamentKey(year, tournamentName, location)} })

\* the loop over the set slots i..5 of a row, from the arrays [w, l] so far
RECURSIVE ScanSetsPartialOneSided(_, _, _)
ScanSetsPartialOneSided(row, i, acc) ==
  IF i > 5 THEN acc
  ELSE LET wScore == normalizeNumber(row.W[i])
           lScore == normalizeNumber(row.L[i])
       IN  IF ~IsNull(wScore) /\ ~IsNull(lScore)
           THEN ScanSetsPartialOneSided(row, i + 1,
                  [w |-> Append(acc.w, Val(wScore)), l |-> Append(acc.l, Val(lScore))])
           ELSE IF ~IsNull(wScore)
           THEN ScanSetsPartialOneSided(row, i + 1, [w |-> Append(acc.w, Val(wScore)), l |-> acc.l])
           ELSE IF ~IsNull(lScore)
           THEN ScanSetsPartialOneSided(row, i + 1, [w |-> acc.w, l |-> Append(acc.l, Val(lScore))])
           ELSE acc

\* a scan that passes over a slot with neither score and reads on
RECURSIVE ScanSetsSkipEmpty(_, _, _)
ScanSetsSkipEmpty(row, i, acc) ==
  IF i > 5 THEN acc
  ELSE LET wScore == normalizeNumber(row.W[i])
           lScore == normalizeNumber(row.L[i])
       IN  IF ~IsNull(wScore) \/ ~IsNull(lScore)
           THEN ScanSetsSkipEmpty(row, i + 1,
                  [w |-> Append(acc.w, OrElse(wScore, 0)), l |-> Append(acc.l, OrElse(lScore, 0))])
           ELSE ScanSetsSkipEmpty(row, i + 1, acc)

RECURSIVE ScanSets(_, _, _)
ScanSets(row, i, acc) ==
  IF i > 5 THEN acc
  ELSE LET wScore == normalizeNumber(row.W[i])
           lScore == normalizeNumber(row.L[i])
       IN  IF ~IsNull(wScore) /\ ~IsNull(lScore)
           THEN ScanSets(row, i + 1,
                  [w |-> Append(acc.w, Val(wScore)), l |-> Append(acc.l, Val(lScore))])
           ELSE IF ~IsNull(wScore) \/ ~IsNull(lScore)
           THEN ScanSets(row, i + 1,
                  [w |-> Append(acc.w, OrElse(wScore, 0)), l |-> Append(acc.l, OrElse(lScore, 0))])
           ELSE acc

\* w.length === 0 && (wsets === 0 && lsets === 0)
\*   && comment !== 'Retired' && comment !== 'Walkover'
DiscardZeroSet(w, wsets, lsets, comment) ==
  /\ Len(w) = 0
  /\ wsets = Some(0) /\ lsets = Some(0)
  /\ comment # Some("Retired") /\ comment # Some("Walkover")

\* the Match of a row whose entities are resolved
BuildMatch(row, date, round, winner, loser, tournament, sets) ==
  [id |-> createMatchID(tournament.id, date, round, winner.id, loser.id),
   tournamentId |-> tournament.id,
   date |-> date,
   round |-> round,
   bestOf |-> IF normalizeNumber(row.BestOf) = Some(5) THEN 5 ELSE 3,
   winnerId |-> winner.id,
   loserId |-> loser.id,
   wRank |-> normalizeNumber(row.WRank),
   lRank |-> normalizeNumber(row.LRank),
   wPts |-> normalizeNumber(row.WPts),
   lPts |-> normalizeNumber(row.LPts),
   w |-> sets.w,
   l |-> sets.l,
   wsets |-> OrElse(normalizeNumber(row.Wsets), 0),
   lsets |-> OrElse(normalizeNumber(row.Lsets), 0),
   comment |-> normalizeValue(row.Comment)]

\* the row loop from the match id on, the registries reg and tm being those
\* the row's players and tournament are in
IngestResolved(row, date, winnerName, loserName, tournamentKey, reg, tm) ==
  Only({ IF DiscardZeroSet(sets.w, normalizeNumber(row.Wsets), normalizeNumber(row.Lsets),
                           normalizeValue(row.Comment))
         THEN [kind |-> "skip", reg |-> reg, tournamentsMap |-> tm,
               match |-> Null, derived |-> Null]
         ELSE Only({ [kind |-> "match", reg |-> reg, tournamentsMap |-> tm,
                      match |-> Some(match), derived |-> Some(computeDerived(match))]
                     : match \in {BuildMatch(row, date, normalizeRound(row.Round),
                                             MapGet(reg.playersMap, winnerName),
                                             MapGet(reg.playersMap, loserName),
                                             MapGet(tm, tournamentKey), sets)} })
         : sets \in {ScanSets(row, 1, [w |-> << >>, l |-> << >>])} })

\* the row loop from the player lookup on, for a row with a date
IngestDated(row, date, reg, tournamentsMap) ==
  LET year == Val(parseInt(SubSeq(date, 1, 4)))
      winnerName == normalizeValue(row.Winner)
      loserName == normalizeValue(row.Loser)
      tournamentName == OrElse(normalizeValue(row.Tournament), "Unknown Tournament")
      location == OrElse(normalizeValue(row.Location), "Unknown Location")
  IN  IF IsNull(winnerName) \/ IsNull(loserName)
      THEN [kind |-> "skip", reg |-> reg, tournamentsMap |-> tournamentsMap,
            match |-> Null, derived |-> Null]
      ELSE Only({ IngestResolved(row, date, Val(winnerName), Val(loserName),
                                 TournamentKey(year, tournamentName, location), reg2, tm2)
                  : reg2 \in {ResolvePlayer(Val(loserName), ResolvePlayer(Val(winnerName), reg))},
                    tm2 \in {ResolveTournament(year, tournamentName, location, row,
                                               tournamentsMap)} })

\* The body of the row loop on one row.  kind is "skip" (a continue),
\* "throw" (parseDate threw) or "match"; the registries are returned as the
\* row leaves them, also when it is skipped.
IngestRow(row, reg, tournamentsMap, east) ==
  LET unchanged == [kind |-> "skip", reg |-> reg, tournamentsMap |-> tournamentsMap,
                    match |-> Null, derived |-> Null]
  IN  IF MissingEssential(row) THEN unchanged
      ELSE Only({ IF ~date.ok THEN [unchanged EXCEPT !.kind = "throw"]
                  ELSE IF date.value = "" THEN unchanged
                  ELSE IngestDated(row, date.value, reg, tournamentsMap)
                  : date \in {parseDate(row.Date, east)} })

(***************************************************************************)
(* Input rows.  Every family of rows varies some columns of BaseRow.       *)
(***************************************************************************)
NoSets == <<"", "", "", "", "">>

BaseRow ==
  [Tournament |-> "X", Location |-> "Z", Date |-> "01/02/24",
   Series |-> "ATP250", Court |-> "Outdoor", Surface |-> "Hard",
   Round |-> "1st Round", BestOf |-> "3",
   Winner |-> "A B", Loser |-> "C",
   WRank |-> "1", LRank |-> "2", WPts |-> "10", LPts |-> "20",
   W |-> <<"6", "6", "", "", "">>, L |-> <<"4", "3", "", "", "">>,
   Wsets |-> "2", Lsets |-> "0", Comment |-> "Completed"]

\* names with equal slugs ("A B", "a b"), and one whose slug is that slug
\* followed by "-1"
PlayerNames == {"A B", "a b", "A B 1", "C"}

PlayerRows ==
  { [BaseRow EXCEPT !.Winner = wn, !.Loser = ln] : wn \in PlayerNames, ln \in PlayerNames }

FieldRows ==
  { [BaseRow EXCEPT !.Tournament = t, !.Location = loc] :
      t \in {"X", "X-Y", "N/A", " "}, loc \in {"Z", "Y-Z"} }
  \cup { [BaseRow EXCEPT !.Tournament = ""], [BaseRow EXCEPT !.Location = ""] }
  \cup { [BaseRow EXCEPT !.Date = d] :
           d \in {"01/02/2023", "2023-05-06", "n/a", "1/2", "ab/cd/ef"} }
  \cup { [BaseRow EXCEPT !.Winner = wn] : wn \in {"", " ", "N/A"} }
  \cup { [BaseRow EXCEPT !.Loser = "N/A"] }

ScoreRows ==
  { [BaseRow EXCEPT !.W = <<w1, w2, "", "", "">>, !.L = <<l1, l2, "", "", "">>] :
      w1 \in {"", "6"}, l1 \in {"", "4"}, w2 \in {"", "7"}, l2 \in {"", "5"} }
  \cup { [BaseRow EXCEPT !.W = <<"6", "3", "6", "6", "7">>, !.L = <<"4", "6", "7", "1", "5">>,
                         !.Wsets = "3", !.Lsets = "2", !.BestOf = "5"] }
  \cup { [BaseRow EXCEPT !.W = NoSets, !.L = NoSets, !.Wsets = ws, !.Lsets = "0", !.Comment = c] :
           ws \in {"", "0", "2"}, c \in {"Retired", "Walkover", "Completed"} }
  \cup { [BaseRow EXCEPT !.W = NoSets, !.L = NoSets, !.Wsets = "0", !.Lsets = "", !.Comment = c] :
           c \in {"Retired", "Completed"} }

RankRows ==
  { [BaseRow EXCEPT !.WRank = wr, !.LRank = lr] :
      wr \in {"", "0", "3", "7"}, lr \in {"", "0", "3", "7"} }
  \cup { [BaseRow EXCEPT !.WPts = wp, !.LPts = lp] :
           wp \in {"", "0", "50"}, lp \in {"", "0", "50"} }

\* the labels of the rounds and the Round codes, some in another letter
\* case, and a label of no round
RoundRows ==
  { [BaseRow EXCEPT !.Round = r] :
      r \in {"1st Round", "2nd Round", "3rd Round", "4th Round", "Quarterfinals",
             "Semifinals", "The Final", "Final", "Round Robin", "Q1", "Q2", "Q3",
             "1R", "2R", "3R", "4R", "QF", "SF", "F", "RR",
             "qf", "SEMIFINALS", "the final", "Bronze"} }

\* rows of every family: players sharing a slug, tournaments sharing a key,
\* a skipped row, a zero-set row, a row with a rank missing
RerunRows ==
  { BaseRow,
    [BaseRow EXCEPT !.Winner = "a b", !.Loser = "A B"],
    [BaseRow EXCEPT !.Winner = "A B 1", !.Tournament = "X-Y", !.Date = "01/02/2023"],
    [BaseRow EXCEPT !.Location = "Y-Z", !.Loser = "N/A"],
    [BaseRow EXCEPT !.W = NoSets, !.L = NoSets, !.Wsets = "0", !.Lsets = "0",
                    !.Comment = "Retired", !.LRank = ""] }

Rows(fam) ==
  CASE fam = "players" -> PlayerRows
    [] fam = "fields" -> FieldRows
    [] fam = "scores" -> ScoreRows
    [] fam = "ranks" -> RankRows
    [] fam = "rerun" -> RerunRows
    [] fam = "rounds" -> RoundRows
    [] OTHER -> {}

(***************************************************************************)
(* State.                                                                  *)
(***************************************************************************)
VARIABLES
  pc,             \* "idle", "files", "noinput", "aborted", "done"; "calls"
  family,         \* the family the input rows are drawn from
  tzEast,         \* the process runs in a time zone east of Greenwich
  runNo,          \* 1: first run of ingest; 2: the run repeated on the same input
  nFiles,         \* csvFiles.length
  fileIdx,        \* the file the file loop is at, 0 before the first
  rowIdx,         \* rows of that file processed so far
  input,          \* the rows of every file read by the first run, in order
  playersMap,     \* Map name -> Player
  playerIDs,      \* Map slug -> count
  tournamentsMap, \* Map tournamentKey -> Tournament
  allMatches,
  allDerived,
  last,           \* the row processed last and how it ended, Null before
  output,         \* the four JSON files on disk, Null before any run wrote them
  prevOutput,     \* the files the first run wrote, kept for comparison
  existingIDs,    \* the counter map of CallCreatePlayerID
  calls,          \* the calls of createPlayerID made on existingIDs, in order
  brackets,       \* Map file name -> tree: the files of public/data/brackets
  log,            \* what the process wrote with console.error and console.warn
  exitCode,       \* the exit status of the process, Null while it runs
  tournamentsFile, \* tournaments.json as addCommonNames reads it, Null if missing
  store,          \* the filter values of the zustand store
  url,            \* the query parameters of window.location, a Map in key order
  isInitialLoad,  \* the flag of the store's subscriber
  page,           \* the state of BracketPage: its useState values
  fetches         \* the bracket fetches of BracketPage not yet completed

vars ==
  <<pc, family, tzEast, runNo, nFiles, fileIdx, rowIdx, input, playersMap, playerIDs,
    tournamentsMap, allMatches, allDerived, last, output, prevOutput, existingIDs, calls,
    brackets, log, exitCode, tournamentsFile, store, url, isInitialLoad, page, fetches>>

\* initialState of the store
initialState ==
  [surface |-> Null, series |-> Null, tournamentId |-> Null, rounds |-> << >>,
   dateRange |-> Null, playerIds |-> << >>]

\* BracketPage as useState creates it
\* selectedYear is Null for '' and Some(year) for a year
InitialPage ==
  [tournaments |-> << >>, selectedYear |-> Null, selectedTournamentId |-> "",
   bracketData |-> Null, loading |-> TRUE, bracketLoading |-> FALSE]

\* no browser: the store and the page as their modules create them
ClientIdle ==
  /\ store = initialState
  /\ url = << >>
  /\ isInitialLoad = TRUE
  /\ page = InitialPage
  /\ fetches = << >>

\* no script running: nothing read, nothing written
ServerIdle ==
  /\ family = "client"
  /\ tzEast = FALSE
  /\ runNo = 1
  /\ nFiles = 0
  /\ fileIdx = 0
  /\ rowIdx = 0
  /\ input = << >>
  /\ playersMap = << >>
  /\ playerIDs = << >>
  /\ tournamentsMap = << >>
  /\ allMatches = << >>
  /\ allDerived = << >>
  /\ last = Null
  /\ output = Null
  /\ prevOutput = Null
  /\ existingIDs = << >>
  /\ calls = << >>
  /\ brackets = << >>
  /\ log = << >>
  /\ exitCode = Null
  /\ tournamentsFile = Null

InitWith(fam, zones) ==
  /\ pc = "idle"
  /\ family = fam
  /\ tzEast \in zones
  /\ runNo = 1
  /\ nFiles = 0
  /\ fileIdx = 0
  /\ rowIdx = 0
  /\ input = << >>
  /\ playersMap = << >>
  /\ playerIDs = << >>
  /\ tournamentsMap = << >>
  /\ allMatches = << >>
  /\ allDerived = << >>
  /\ last = Null
  /\ output = Null
  /\ prevOutput = Null
  /\ existingIDs = << >>
  /\ calls = << >>
  /\ brackets = << >>
  /\ log = << >>
  /\ exitCode = Null
  /\ tournamentsFile = Null
  /\ ClientIdle

Init == InitWith("players", {FALSE})
InitFields == InitWith("fields", BOOLEAN)
InitScores == InitWith("scores", {FALSE})
InitRanks == InitWith("ranks", {FALSE})
InitRerun == InitWith("rerun", BOOLEAN)
InitRounds == InitWith("rounds", {FALSE})

\* the number of CSV files the working directory may hold: the families
\* that are about the rows of one file are read from one file
FileLimit(fam) == IF fam \in {"players", "rerun"} THEN MaxFiles ELSE 1

RECURSIVE TotalRows(_)
TotalRows(files) == IF files = << >> THEN 0 ELSE Len(Head(files)) + TotalRows(Tail(files))

\* The registries as ingest creates them, whatever an earlier run left on disk.
NewPlayerIDsFromDisk(disk) ==
  IF IsNull(disk) THEN << >>
  ELSE [i \in 1..Len(Val(disk).players) |-> [key |-> Val(disk).players[i].id, value |-> 0]]

NewPlayerIDs(disk) == << >>
NewPlayersMap(disk) == << >>
NewTournamentsMap(disk) == << >>

ConsoleError(text) == [level |-> "error", text |-> text]
ConsoleWarn(text) == [level |-> "warn", text |-> text]

\* fs.writeFileSync of every file of files into the directory disk
RECURSIVE WriteFiles(_, _)
WriteFiles(disk, files) ==
  IF files = << >> THEN disk
  ELSE WriteFiles(MapSet(disk, Head(files).key, Head(files).value), Tail(files))

(***************************************************************************)
(* ingest().                                                               *)
(***************************************************************************)
\* the data structures are created and the CSV files are listed; with no
\* file, ingest logs an error and returns
Start ==
  /\ pc = "idle"
  /\ \E n \in 0..FileLimit(family) :
       /\ runNo = 2 => n = Len(input)
       /\ nFiles' = n
       /\ pc' = IF n = 0 THEN "noinput" ELSE "files"
       /\ log' = IF n = 0 THEN Append(log, ConsoleError("No year CSV files")) ELSE log
  /\ playersMap' = NewPlayersMap(output)
  /\ playerIDs' = NewPlayerIDs(output)
  /\ tournamentsMap' = NewTournamentsMap(output)
  /\ allMatches' = << >>
  /\ allDerived' = << >>
  /\ fileIdx' = 0
  /\ rowIdx' = 0
  /\ last' = Null
  /\ UNCHANGED <<family, tzEast, runNo, input, output, prevOutput, existingIDs, calls,
                 brackets, exitCode, tournamentsFile,
                 store, url, isInitialLoad, page, fetches>>

FileExhausted ==
  IF runNo = 1 \/ fileIdx = 0 THEN TRUE ELSE rowIdx = Len(input[fileIdx])

\* the file loop moves to the next file
OpenFile ==
  /\ pc = "files"
  /\ fileIdx < nFiles
  /\ FileExhausted
  /\ fileIdx' = fileIdx + 1
  /\ rowIdx' = 0
  /\ input' = IF runNo = 1 THEN Append(input, << >>) ELSE input
  /\ UNCHANGED <<pc, family, tzEast, runNo, nFiles, playersMap, playerIDs, tournamentsMap,
                 allMatches, allDerived, last, output, prevOutput, existingIDs, calls,
                 brackets, log, exitCode, tournamentsFile,
                 store, url, isInitialLoad, page, fetches>>

\* the rows the current file may hold next
NextRows ==
  IF runNo = 1
  THEN (IF TotalRows(input) < MaxRows THEN Rows(family) ELSE {})
  ELSE (IF rowIdx < Len(input[fileIdx]) THEN {input[fileIdx][rowIdx + 1]} ELSE {})

\* one pass of the row loop
ProcessRow ==
  /\ pc = "files"
  /\ fileIdx >= 1
  /\ \E row \in NextRows :
       \E res \in {IngestRow(row, [playersMap |-> playersMap, playerIDs |-> playerIDs],
                             tournamentsMap, tzEast)} :
           /\ pc' = IF res.kind = "throw" THEN "aborted" ELSE "files"
           /\ log' = IF res.kind = "throw" THEN Append(log, ConsoleError("RangeError")) ELSE log
           /\ playersMap' = res.reg.playersMap
           /\ playerIDs' = res.reg.playerIDs
           /\ tournamentsMap' = res.tournamentsMap
           /\ allMatches' = allMatches \o res.match
           /\ allDerived' = allDerived \o res.derived
           /\ last' = Some([row |-> row, kind |-> res.kind])
           /\ input' = IF runNo = 1 THEN [input EXCEPT ![fileIdx] = Append(@, row)] ELSE input
  /\ rowIdx' = rowIdx + 1
  /\ UNCHANGED <<family, tzEast, runNo, nFiles, fileIdx, output, prevOutput, existingIDs, calls,
                 brackets, exitCode, tournamentsFile,
                 store, url, isInitialLoad, page, fetches>>

\* after the file loop: the maps become arrays and the four files are written
WriteOutputs ==
  /\ pc = "files"
  /\ fileIdx = nFiles
  /\ FileExhausted
  /\ output' = Some([players |-> MapValues(playersMap),
                     tournaments |-> MapValues(tournamentsMap),
                     matches |-> allMatches,
                     derived |-> allDerived])
  /\ \E made \in {generateBracketData(allMatches, MapValues(playersMap),
                                       MapValues(tournamentsMap))} :
       /\ brackets' = WriteFiles(brackets, made.files)
       /\ log' = log \o [i \in 1..Len(made.warnings) |-> ConsoleWarn(made.warnings[i])]
  /\ pc' = "done"
  /\ UNCHANGED <<family, tzEast, runNo, nFiles, fileIdx, rowIdx, input, playersMap, playerIDs,
                 tournamentsMap, allMatches, allDerived, last, prevOutput, existingIDs, calls,
                 exitCode, tournamentsFile,
                 store, url, isInitialLoad, page, fetches>>

\* ingest() has returned, or .catch(console.error) has logged what it threw:
\* the process ends, with the exit status nothing has set
ProcessExit ==
  /\ pc \in {"noinput", "aborted", "done"}
  /\ IsNull(exitCode)
  /\ exitCode' = Some(0)
  /\ UNCHANGED <<pc, family, tzEast, runNo, nFiles, fileIdx, rowIdx, input, playersMap,
                 playerIDs, tournamentsMap, allMatches, allDerived, last, output, prevOutput,
                 existingIDs, calls, brackets, log, tournamentsFile,
                 store, url, isInitialLoad, page, fetches>>

\* the script is run again on the same input files
Rerun ==
  /\ pc = "done"
  /\ ~IsNull(exitCode)
  /\ runNo = 1
  /\ runNo' = 2
  /\ pc' = "idle"
  /\ prevOutput' = output
  /\ log' = << >>
  /\ exitCode' = Null
  /\ UNCHANGED <<family, tzEast, nFiles, fileIdx, rowIdx, input, playersMap, playerIDs,
                 tournamentsMap, allMatches, allDerived, last, output, existingIDs, calls,
                 brackets, tournamentsFile,
                 store, url, isInitialLoad, page, fetches>>

Next == Start \/ OpenFile \/ ProcessRow \/ WriteOutputs \/ ProcessExit

\* ingest run once, and then once more on the same files
NextRerun == Start \/ OpenFile \/ ProcessRow \/ WriteOutputs \/ ProcessExit \/ Rerun

Spec == Init /\ [][Next]_vars
SpecRerun == InitRerun /\ [][NextRerun]_vars
SpecFields == InitFields /\ [][Next]_vars
SpecScores == InitScores /\ [][Next]_vars
SpecRanks == InitRanks /\ [][Next]_vars
SpecRounds == InitRounds /\ [][Next]_vars

(***************************************************************************)
(* createPlayerID called on one counter map, with any names in any order.  *)
(***************************************************************************)
InitPlayerID ==
  /\ pc = "calls"
  /\ family = "calls"
  /\ tzEast = FALSE
  /\ runNo = 1
  /\ nFiles = 0
  /\ fileIdx = 0
  /\ rowIdx = 0
  /\ input = << >>
  /\ playersMap = << >>
  /\ playerIDs = << >>
  /\ tournamentsMap = << >>
  /\ allMatches = << >>
  /\ allDerived = << >>
  /\ last = Null
  /\ output = Null
  /\ prevOutput = Null
  /\ existingIDs = << >>
  /\ calls = << >>
  /\ brackets = << >>
  /\ log = << >>
  /\ exitCode = Null
  /\ tournamentsFile = Null
  /\ ClientIdle

CallNames == {"A B", "a b", "A.B.", "A B 1", "C"}

CallCreatePlayerID ==
  /\ pc = "calls"
  /\ Len(calls) < MaxCalls
  /\ \E name \in CallNames :
       \E made \in {createPlayerID(name, existingIDs)} :
           /\ existingIDs' = made.existingIDs
           /\ calls' = Append(calls, [name |-> name, slug |-> slugify(name), id |-> made.id])
  /\ UNCHANGED <<pc, family, tzEast, runNo, nFiles, fileIdx, rowIdx, input, playersMap,
                 playerIDs, tournamentsMap, allMatches, allDerived, last, output, prevOutput,
                 brackets, log, exitCode, tournamentsFile,
                 store, url, isInitialLoad, page, fetches>>

NextPlayerID == CallCreatePlayerID

SpecPlayerID == InitPlayerID /\ [][NextPlayerID]_vars

(***************************************************************************)
(* generateBracketData called on a draw: the matches of two tournaments,   *)
(* any of them added in any order after the matches the draw starts with.  *)
(***************************************************************************)
\* players "C" is a player of matches and no player of allPlayers
BracketPlayers ==
  << [key |-> "A", value |-> [id |-> "a", name |-> "A"]],
     [key |-> "B", value |-> [id |-> "b", name |-> "B"]] >>

BracketTournaments ==
  << [key |-> "2024-X-Z",
      value |-> [id |-> "t1", year |-> 2024, name |-> "X", location |-> "Z",
                 series |-> "ATP250", court |-> "Outdoor", surface |-> "Hard"]],
     [key |-> "2024-Y-Z",
      value |-> [id |-> "t2", year |-> 2024, name |-> "Y", location |-> "Z",
                 series |-> "ATP250", court |-> "Outdoor", surface |-> "Hard"]] >>

BracketMatch(tournamentId, round, winnerId, loserId) ==
  [id |-> createMatchID(tournamentId, "2024-01-02", round, winnerId, loserId),
   tournamentId |-> tournamentId,
   date |-> "2024-01-02",
   round |-> round,
   bestOf |-> 3,
   winnerId |-> winnerId,
   loserId |-> loserId,
   wRank |-> Null, lRank |-> Null, wPts |-> Null, lPts |-> Null,
   w |-> <<6, 6>>, l |-> <<4, 3>>, wsets |-> 2, lsets |-> 0,
   comment |-> Some("Completed")]

\* the rounds of the precedence chain, the Final first
ChainRounds == <<"F", "SF", "QF", "4R", "3R", "2R", "1R", "Q3", "Q2", "Q1">>

\* the draws a tournament starts with: none, a Final, and one match of
\* every round of the chain, all won by the same player
BracketSeeds ==
  { << >>,
    <<BracketMatch("t1", "F", "a", "b")>>,
    [i \in 1..Len(ChainRounds) |-> BracketMatch("t1", ChainRounds[i], "a", "b")] }

BracketMatches ==
  { BracketMatch("t1", round, winnerId, loserId) :
      round \in {"F", "SF", "QF", "RR"}, winnerId \in {"a", "b"}, loserId \in {"a", "b", "c"} }
  \cup { BracketMatch("t2", round, "a", "b") : round \in {"F", "SF", "RR"} }
  \cup { [BracketMatch("t1", "SF", "a", "b") EXCEPT
            !.w = << >>, !.l = << >>, !.wsets = 0, !.comment = Some("Retired")],
         [BracketMatch("t1", "SF", "b", "a") EXCEPT
            !.w = << >>, !.l = << >>, !.wsets = 0, !.comment = Some("Walkover")],
         [BracketMatch("t1", "QF", "a", "b") EXCEPT
            !.w = <<6, 2>>, !.l = <<4, 0>>, !.wsets = 1, !.comment = Some("Retired")] }

InitBracket ==
  /\ pc = "draw"
  /\ family = "bracket"
  /\ tzEast = FALSE
  /\ runNo = 1
  /\ nFiles = 0
  /\ fileIdx = 0
  /\ rowIdx = 0
  /\ input = << >>
  /\ playersMap = BracketPlayers
  /\ playerIDs = << >>
  /\ tournamentsMap = BracketTournaments
  /\ allMatches \in BracketSeeds
  /\ allDerived = << >>
  /\ last = Null
  /\ output = Null
  /\ prevOutput = Null
  /\ existingIDs = << >>
  /\ calls = << >>
  /\ brackets = << >>
  /\ log = << >>
  /\ exitCode = Null
  /\ tournamentsFile = Null
  /\ ClientIdle

\* one more match in allMatches; rowIdx counts the matches added
AddBracketMatch ==
  /\ pc = "draw"
  /\ rowIdx < MaxBracketMatches
  /\ \E m \in BracketMatches : allMatches' = Append(allMatches, m)
  /\ rowIdx' = rowIdx + 1
  /\ UNCHANGED <<pc, family, tzEast, runNo, nFiles, fileIdx, input, playersMap, playerIDs,
                 tournamentsMap, allDerived, last, output, prevOutput, existingIDs, calls,
                 brackets, log, exitCode, tournamentsFile,
                 store, url, isInitialLoad, page, fetches>>

CallGenerateBracketData ==
  /\ pc = "draw"
  /\ \E made \in {generateBracketData(allMatches, MapValues(playersMap),
                                       MapValues(tournamentsMap))} :
       /\ brackets' = WriteFiles(brackets, made.files)
       /\ log' = log \o [i \in 1..Len(made.warnings) |-> ConsoleWarn(made.warnings[i])]
  /\ pc' = "brackets"
  /\ UNCHANGED <<family, tzEast, runNo, nFiles, fileIdx, rowIdx, input, playersMap, playerIDs,
                 tournamentsMap, allMatches, allDerived, last, output, prevOutput, existingIDs,
                 calls, exitCode, tournamentsFile,
                 store, url, isInitialLoad, page, fetches>>

NextBracket == AddBracketMatch \/ CallGenerateBracketData

SpecBracket == InitBracket /\ [][NextBracket]_vars

(***************************************************************************)
(* addCommonNames run on a tournaments.json, and run again.                *)
(***************************************************************************)
TournamentObject(name, extra, place) ==
  LET base == << [key |-> "id", value |-> "t1"], [key |-> "year", value |-> 2024],
                 [key |-> "name", value |-> name], [key |-> "location", value |-> "Z"] >>
  IN  IF IsNull(extra) THEN base
      ELSE SubSeq(base, 1, place) \o << [key |-> "commonName", value |-> Val(extra)] >>
             \o SubSeq(base, place + 1, Len(base))

\* tournaments whose name is a key of nameMap or not, with no commonName,
\* with one after the name, with one as the last field; and an object with
\* no name
TournamentObjects ==
  { TournamentObject(name, Null, 0) : name \in {"ASB Classic", "Australian Open", "X"} }
  \cup { TournamentObject(name, Some(common), place) :
           name \in {"ASB Classic", "Australian Open", "X"},
           common \in {"Old"}, place \in {3, 4} }
  \cup { << [key |-> "id", value |-> "t9"], [key |-> "commonName", value |-> "Old"] >> }

TournamentFiles ==
  UNION { [1..n -> TournamentObjects] : n \in 0..MaxTournaments }

InitAugment ==
  /\ pc = "augment"
  /\ family = "augment"
  /\ tzEast = FALSE
  /\ runNo = 0
  /\ nFiles = 0
  /\ fileIdx = 0
  /\ rowIdx = 0
  /\ input = << >>
  /\ playersMap = << >>
  /\ playerIDs = << >>
  /\ tournamentsMap = << >>
  /\ allMatches = << >>
  /\ allDerived = << >>
  /\ last = Null
  /\ output = Null
  /\ prevOutput = Null
  /\ existingIDs = << >>
  /\ calls = << >>
  /\ brackets = << >>
  /\ log = << >>
  /\ exitCode = Null
  /\ tournamentsFile \in {Null} \cup { Some(f) : f \in TournamentFiles }
  /\ ClientIdle

\* addCommonNames with tournaments.json in place; runNo counts the runs and
\* prevOutput keeps the file as the run found it
AddCommonNames ==
  /\ pc = "augment"
  /\ runNo < MaxPasses
  /\ ~IsNull(tournamentsFile)
  /\ tournamentsFile' = Some(UpdatedTournaments(Val(tournamentsFile)))
  /\ prevOutput' = tournamentsFile
  /\ runNo' = runNo + 1
  /\ UNCHANGED <<pc, family, tzEast, nFiles, fileIdx, rowIdx, input, playersMap, playerIDs,
                 tournamentsMap, allMatches, allDerived, last, output, existingIDs, calls,
                 brackets, log, exitCode,
                 store, url, isInitialLoad, page, fetches>>

\* addCommonNames with no tournaments.json: an error and process.exit(1)
AddCommonNamesNoFile ==
  /\ pc = "augment"
  /\ IsNull(tournamentsFile)
  /\ log' = Append(log, ConsoleError("File not found"))
  /\ exitCode' = Some(1)
  /\ pc' = "exited"
  /\ UNCHANGED <<family, tzEast, runNo, nFiles, fileIdx, rowIdx, input, playersMap, playerIDs,
                 tournamentsMap, allMatches, allDerived, last, output, prevOutput, existingIDs,
                 calls, brackets, tournamentsFile,
                 store, url, isInitialLoad, page, fetches>>

NextAugment == AddCommonNames \/ AddCommonNamesNoFile

SpecAugment == InitAugment /\ [][NextAugment]_vars

(***************************************************************************)
(* The filter store and its synchronisation with the URL.                  *)
(***************************************************************************)
serverVars ==
  <<family, tzEast, runNo, nFiles, fileIdx, rowIdx, input, playersMap, playerIDs,
    tournamentsMap, allMatches, allDerived, last, output, prevOutput, existingIDs, calls,
    brackets, log, exitCode, tournamentsFile>>

\* Array.prototype.join(',')
RECURSIVE JoinComma(_)
JoinComma(strs) ==
  IF strs = << >> THEN ""
  ELSE IF Len(strs) = 1 THEN strs[1]
  ELSE strs[1] \o "," \o JoinComma(Tail(strs))

\* params.get(key), Null when the parameter is missing
ParamGet(params, key) == IF MapHas(params, key) THEN Some(MapGet(params, key)) ELSE Null

\* a string or null is truthy when it is a non-empty string
TruthyStr(o) == ~IsNull(o) /\ Val(o) # ""

\* the query parameters syncToURL writes for the filter values state
syncToURL(state) ==
  LET p1 == IF TruthyStr(state.surface) THEN MapSet(<< >>, "surface", Val(state.surface))
            ELSE << >>
      p2 == IF TruthyStr(state.series) THEN MapSet(p1, "series", Val(state.series)) ELSE p1
      p3 == IF TruthyStr(state.tournamentId)
            THEN MapSet(p2, "tournament", Val(state.tournamentId)) ELSE p2
      p4 == IF Len(state.rounds) > 0 THEN MapSet(p3, "rounds", JoinComma(state.rounds)) ELSE p3
      p5 == IF ~IsNull(state.dateRange)
            THEN MapSet(MapSet(p4, "startDate", Val(state.dateRange)[1]),
                        "endDate", Val(state.dateRange)[2])
            ELSE p4
  IN  IF Len(state.playerIds) > 0 THEN MapSet(p5, "players", JoinComma(state.playerIds))
      ELSE p5

\* playersStr ? playersStr.split(',') : []
PlayerIdsOf(playersStr) ==
  IF TruthyStr(playersStr) THEN split(Val(playersStr), ",") ELSE << >>

\* the filter values loadFromURL sets from the query parameters
loadFromURL(params) ==
  LET surface == ParamGet(params, "surface")
      series == ParamGet(params, "series")
      tournamentId == ParamGet(params, "tournament")
      roundsStr == ParamGet(params, "rounds")
      startDate == ParamGet(params, "startDate")
      endDate == ParamGet(params, "endDate")
      playersStr == ParamGet(params, "players")
  IN  [surface |-> IF TruthyStr(surface)
                      /\ Val(surface) \in {"Hard", "Clay", "Grass", "Carpet"}
                   THEN surface ELSE Null,
       series |-> IF TruthyStr(series)
                     /\ Val(series) \in {"Grand Slam", "Masters", "ATP500", "ATP250"}
                  THEN series ELSE Null,
       tournamentId |-> IF TruthyStr(tournamentId) THEN tournamentId ELSE Null,
       rounds |-> IF TruthyStr(roundsStr) THEN split(Val(roundsStr), ",") ELSE << >>,
       dateRange |-> IF TruthyStr(startDate) /\ TruthyStr(endDate)
                     THEN Some(<<Val(startDate), Val(endDate)>>) ELSE Null,
       playerIds |-> PlayerIdsOf(playersStr)]

\* the subscriber of the store, called by every set with the state set: the
\* URL it leaves, isInitialLoad being initial when it is called
Notified(state, initial) == IF ~initial THEN syncToURL(state) ELSE url

\* set(partial) of the loaded store: the values are merged and the
\* subscriber runs
StoreSet(state) ==
  /\ pc = "loaded"
  /\ store' = state
  /\ url' = Notified(state, isInitialLoad)
  /\ isInitialLoad' = FALSE
  /\ UNCHANGED <<pc, page, fetches>>
  /\ UNCHANGED serverVars

\* the query strings a page is opened with
InitialParams ==
  { << >>,
    << [key |-> "surface", value |-> "Clay"], [key |-> "players", value |-> "p1"] >>,
    << [key |-> "surface", value |-> "Mud"], [key |-> "rounds", value |-> "F,SF"] >>,
    << [key |-> "players", value |-> "p1,p2,p3,p4"] >> }

PlayerIdValues == {"p1", "p2", "p3", "p4"}

InitStore ==
  /\ pc = "unloaded"
  /\ ServerIdle
  /\ store = initialState
  /\ url \in InitialParams
  /\ isInitialLoad = TRUE
  /\ page = InitialPage
  /\ fetches = << >>

\* the module is loaded in a browser: loadFromURL, and then the subscriber
\* is set up
LoadStore ==
  /\ pc = "unloaded"
  /\ store' = loadFromURL(url)
  /\ isInitialLoad' = TRUE
  /\ pc' = "loaded"
  /\ UNCHANGED <<url, page, fetches>>
  /\ UNCHANGED serverVars

SetSurface == \E surface \in {Null, Some("Clay")} : StoreSet([store EXCEPT !.surface = surface])

SetSeries == \E series \in {Null, Some("Masters")} : StoreSet([store EXCEPT !.series = series])

SetTournamentId ==
  \E tournamentId \in {Null, Some("t1")} : StoreSet([store EXCEPT !.tournamentId = tournamentId])

SetRounds == \E rounds \in {<< >>, <<"F", "SF">>} : StoreSet([store EXCEPT !.rounds = rounds])

ToggleRound ==
  \E round \in {"F"} :
    StoreSet([store EXCEPT !.rounds =
                IF \E i \in 1..Len(@) : @[i] = round
                THEN SelectSeq(@, LAMBDA r : r # round)
                ELSE Append(@, round)])

SetDateRange ==
  \E dateRange \in {Null, Some(<<"2024-01-01", "2024-12-31">>)} :
    StoreSet([store EXCEPT !.dateRange = dateRange])

SetPlayerIds ==
  \E playerIds \in {<< >>, <<"p1", "p2", "p3", "p4">>} :
    StoreSet([store EXCEPT !.playerIds =
                SubSeq(playerIds, 1, IF Len(playerIds) < 3 THEN Len(playerIds) ELSE 3)])

TogglePlayer ==
  \E playerId \in PlayerIdValues :
    StoreSet([store EXCEPT !.playerIds =
                IF \E i \in 1..Len(@) : @[i] = playerId
                THEN SelectSeq(@, LAMBDA id : id # playerId)
                ELSE SubSeq(Append(@, playerId), 1,
                            IF Len(@) + 1 < 3 THEN Len(@) + 1 ELSE 3)])

ClearFilters == StoreSet(initialState)

NextStore ==
  \/ LoadStore
  \/ SetSurface
  \/ SetSeries
  \/ SetTournamentId
  \/ SetRounds
  \/ ToggleRound
  \/ SetDateRange
  \/ SetPlayerIds
  \/ TogglePlayer
  \/ ClearFilters

SpecStore == InitStore /\ [][NextStore]_vars

(***************************************************************************)
(* BracketPage: the selection of a year and a tournament, and the fetches  *)
(* of the bracket files.  fetches holds the ids of the tournaments whose   *)
(* bracket file is being fetched; the responses come in any order.         *)
(***************************************************************************)
\* data/tournaments.json as the page reads it
PageTournaments ==
  << [id |-> "t1", year |-> 2024], [id |-> "t2", year |-> 2024], [id |-> "t3", year |-> 2025] >>

\* the tournaments with a file data/brackets/<id>.json
BracketFiles == {"t1", "t2"}

InitPage ==
  /\ pc = "page"
  /\ ServerIdle
  /\ ClientIdle

PageStep(next, started) ==
  /\ pc = "page"
  /\ page' = next
  /\ fetches' = started
  /\ UNCHANGED <<pc, store, url, isInitialLoad>>
  /\ UNCHANGED serverVars

\* the fetch of tournaments.json is answered
TournamentsLoaded ==
  /\ page.loading
  /\ PageStep([page EXCEPT !.tournaments = PageTournaments, !.loading = FALSE], fetches)

TournamentsFailed ==
  /\ page.loading
  /\ PageStep([page EXCEPT !.loading = FALSE], fetches)

\* the years of the options of the year select
availableYears == { page.tournaments[i].year : i \in 1..Len(page.tournaments) }

\* the ids of the options of the tournament select
tournamentsForYear ==
  IF IsNull(page.selectedYear) THEN {}
  ELSE { page.tournaments[i].id :
           i \in { j \in 1..Len(page.tournaments) :
                     page.tournaments[j].year = Val(page.selectedYear) } }

\* another option of the year select is chosen, and the effect of
\* selectedYear runs (and the effect of selectedTournamentId, the id being
\* '' then)
SelectYear ==
  /\ ~page.loading
  /\ \E year \in {Null} \cup { Some(y) : y \in availableYears } :
       /\ year # page.selectedYear
       /\ PageStep([page EXCEPT !.selectedYear = year, !.selectedTournamentId = "",
                                !.bracketData = Null],
                   fetches)

\* another option of the tournament select is chosen, and the effect of
\* selectedTournamentId runs
SelectTournament ==
  /\ ~page.loading
  /\ ~IsNull(page.selectedYear)
  /\ \E id \in {""} \cup tournamentsForYear :
       /\ id # page.selectedTournamentId
       /\ IF id = ""
          THEN PageStep([page EXCEPT !.selectedTournamentId = id, !.bracketData = Null],
                        fetches)
          ELSE /\ Len(fetches) < MaxFetches
               /\ PageStep([page EXCEPT !.selectedTournamentId = id, !.bracketLoading = TRUE],
                           Append(fetches, id))

\* fetches without its i-th element
WithoutFetch(i) == SubSeq(fetches, 1, i - 1) \o SubSeq(fetches, i + 1, Len(fetches))

\* a fetch is answered with the file: setBracketData(data)
FetchSucceeds ==
  \E i \in 1..Len(fetches) :
    /\ fetches[i] \in BracketFiles
    /\ PageStep([page EXCEPT !.bracketData = Some(fetches[i]), !.bracketLoading = FALSE],
                WithoutFetch(i))

\* a fetch fails, or is answered with a status that is not ok
FetchFails ==
  \E i \in 1..Len(fetches) :
    PageStep([page EXCEPT !.bracketData = Null, !.bracketLoading = FALSE], WithoutFetch(i))

NextPage ==
  \/ TournamentsLoaded
  \/ TournamentsFailed
  \/ SelectYear
  \/ SelectTournament
  \/ FetchSucceeds
  \/ FetchFails

SpecPage == InitPage /\ [][NextPage]_vars

(***************************************************************************)
(* Properties.                                                             *)
(***************************************************************************)
LastRow == Val(last).row
LastKind == Val(last).kind
LastMatch == allMatches[Len(allMatches)]
EmittedMatch == ~IsNull(last) /\ LastKind = "match"

\* C1: no two distinct Player entries of the registry have the same id.
C1_PlayerIdsUnique ==
  \A i, j \in 1..Len(playersMap) :
    i # j => playersMap[i].value.id # playersMap[j].value.id

\* the (year, normalized name, normalized location) of a row with a date
RowTriple(row, east) ==
  [year |-> Val(parseInt(SubSeq(parseDate(row.Date, east).value, 1, 4))),
   name |-> OrElse(normalizeValue(row.Tournament), "Unknown Tournament"),
   location |-> OrElse(normalizeValue(row.Location), "Unknown Location")]

TournamentTriple(t) == [year |-> t.year, name |-> t.name, location |-> t.location]

\* C2: rows resolve to the same Tournament entity if and only if they agree
\* on (year, normalized name, normalized location): the entity a row
\* resolves to carries the row's own triple, and no two entities carry the
\* same triple.
C2_TournamentPerTriple ==
  /\ EmittedMatch =>
       LET triple == RowTriple(LastRow, tzEast)
       IN  TournamentTriple(MapGet(tournamentsMap,
             TournamentKey(triple.year, triple.name, triple.location))) = triple
  /\ \A i, j \in 1..Len(tournamentsMap) :
       i # j => TournamentTriple(tournamentsMap[i].value) # TournamentTriple(tournamentsMap[j].value)

\* the number of calls before call i that had the slug of call i
EarlierSameSlug(i) == Cardinality({ j \in 1..(i - 1) : calls[j].slug = calls[i].slug })

\* C3: on one counter map, the first call with slug s returns s and the
\* k-th later call with slug s returns s-k; so the suffixes of a slug grow
\* by one with every call and none is issued twice.
C3_SuffixSequence ==
  \A i \in 1..Len(calls) :
    calls[i].id = IF EarlierSameSlug(i) = 0
                  THEN calls[i].slug
                  ELSE calls[i].slug \o "-" \o DecStr(EarlierSameSlug(i))

C3_Witness ==
  \E i, j, k \in 1..Len(calls) :
    /\ i < j /\ j < k
    /\ calls[i].slug = "a-b" /\ calls[j].slug = "a-b" /\ calls[k].slug = "a-b"
    /\ calls[i].name # calls[j].name
    /\ calls[k].id = "a-b-2"

\* C4: in one run every step keeps every entry of the player registry as it
\* is, over all files, and a row whose winner (loser) name is already in
\* the registry yields a match with the id that name was given.
C4_Step ==
  /\ Len(playersMap') >= Len(playersMap)
  /\ \A i \in 1..Len(playersMap) : playersMap'[i] = playersMap[i]
  /\ Len(allMatches') > Len(allMatches) =>
       LET row == Val(last').row
           wn == Val(normalizeValue(row.Winner))
           ln == Val(normalizeValue(row.Loser))
           m == allMatches'[Len(allMatches')]
       IN  /\ MapHas(playersMap, wn) => m.winnerId = MapGet(playersMap, wn).id
           /\ MapHas(playersMap, ln) => m.loserId = MapGet(playersMap, ln).id
           /\ m.winnerId = MapGet(playersMap', wn).id
           /\ m.loserId = MapGet(playersMap', ln).id

C4_RegistryGrows == [][C4_Step]_vars

\* a name registered by a row of the first file is met again in the second
C4_Witness ==
  /\ fileIdx = 2 /\ rowIdx = 1 /\ Len(input[1]) = 1
  /\ Len(allMatches) = 2
  /\ normalizeValue(input[1][1].Loser) = normalizeValue(input[2][1].Winner)
  /\ allMatches[1].loserId = allMatches[2].winnerId
  /\ allMatches[2].winnerId = "a-b-1"

C6_MatchOnlyIfAllResolve ==
  EmittedMatch =>
    /\ ~IsNull(normalizeValue(LastRow.Tournament))
    /\ ~IsNull(normalizeValue(LastRow.Winner))
    /\ ~IsNull(normalizeValue(LastRow.Loser))
    /\ parseDate(LastRow.Date, tzEast).value # ""

\* C7: a row with no recorded set yields a Match only when wsets = 0,
\* lsets = 0 and the comment is 'Retired' or 'Walkover'.
C7_ZeroSetOnlyRetired ==
  (EmittedMatch /\ Len(LastMatch.w) = 0) =>
    /\ normalizeNumber(LastRow.Wsets) = Some(0)
    /\ normalizeNumber(LastRow.Lsets) = Some(0)
    /\ normalizeValue(LastRow.Comment) \in {Some("Retired"), Some("Walkover")}

\* C8: every Match has as many w as l entries, and at most five.
C8_SetArraysAligned ==
  \A i \in 1..Len(allMatches) :
    Len(allMatches[i].w) = Len(allMatches[i].l) /\ Len(allMatches[i].w) <= 5

\* a match with a one-sided slot, and a match of five sets
C8_Witness ==
  /\ \E i \in 1..Len(allMatches) : allMatches[i].w = <<6, 0>> /\ allMatches[i].l = <<4, 5>>
  /\ \E i \in 1..Len(allMatches) : Len(allMatches[i].w) = 5

\* C9: with both ranks present (0 included) upset is lRank < wRank, and
\* upset is undefined exactly when a rank is absent.
C9_UpsetWhenBothRanks ==
  \A i \in 1..Len(allMatches) :
    LET m == allMatches[i]
        d == allDerived[i]
    IN  IF ~IsNull(m.wRank) /\ ~IsNull(m.lRank)
        THEN d.upset = Some(Val(m.lRank) < Val(m.wRank))
        ELSE IsNull(d.upset)

\* C10: rankDiff is set, to wRank - lRank, exactly when both ranks are
\* present, and ptsDiff, to wPts - lPts, exactly when both points are
\* present, 0 being a present value.
C10_DiffsWhenBothPresent ==
  \A i \in 1..Len(allMatches) :
    LET m == allMatches[i]
        d == allDerived[i]
    IN  /\ d.rankDiff = IF ~IsNull(m.wRank) /\ ~IsNull(m.lRank)
                        THEN Some(Val(m.wRank) - Val(m.lRank)) ELSE Null
        /\ d.ptsDiff = IF ~IsNull(m.wPts) /\ ~IsNull(m.lPts)
                       THEN Some(Val(m.wPts) - Val(m.lPts)) ELSE Null

\* the nodes of a tree, and its depth counted in parent-child hops
RECURSIVE NodesOf(_)
NodesOf(node) ==
  {node} \cup UNION { NodesOf(node.children[i]) : i \in 1..Len(node.children) }

RECURSIVE DepthOf(_)
DepthOf(node) ==
  IF node.children = << >> THEN 0
  ELSE LET below == { DepthOf(node.children[i]) : i \in 1..Len(node.children) }
       IN  1 + CHOOSE d \in below : \A e \in below : e <= d

BracketTrees == { brackets[i].value : i \in 1..Len(brackets) }
BracketNodes == UNION { NodesOf(tree) : tree \in BracketTrees }
IsBye(node) == node.attributes.loserName = "BYE" /\ node.attributes.score = "BYE"

\* C11: every node of every bracket tree has no child or exactly two, and
\* no tree is deeper than the entries of the precedence table are many (9
\* hops from the Final).
C11_BinaryBoundedDepth ==
  /\ \A n \in BracketNodes : Len(n.children) \in {0, 2}
  /\ \A tree \in BracketTrees : DepthOf(tree) <= Len(ChainRounds) - 1

\* a tree from a draw with a match of every round: a Q1 match nine hops
\* below the Final, and a node with a found child and a BYE child
C11_Witness ==
  \E tree \in BracketTrees :
    /\ tree.attributes.round = "F"
    /\ DepthOf(tree) = 9
    /\ \E n \in NodesOf(tree) : n.attributes.round = "Q1" /\ ~IsBye(n)
    /\ ~IsBye(tree.children[1]) /\ IsBye(tree.children[2])

\* the place of a round in the precedence chain, the Final first; 0 for a
\* round that is not in it
ChainPlace(round) ==
  IF \E i \in 1..Len(ChainRounds) : ChainRounds[i] = round
  THEN CHOOSE i \in 1..Len(ChainRounds) : ChainRounds[i] = round
  ELSE 0

\* C12: findChildrenForMatch returns on every match list: no call overflows
\* the call stack, because every child of a node is of the round one place
\* further down the precedence chain than the node.
C12_RecursionDescends ==
  \A n \in BracketNodes :
    /\ n # StackOverflowNode
    /\ \A i \in 1..Len(n.children) :
         /\ ChainPlace(n.attributes.round) >= 1
         /\ ChainPlace(n.children[i].attributes.round) = ChainPlace(n.attributes.round) + 1

\* a draw with the same match twice, of a player who is winner and loser,
\* and the tree built from it
C12_Witness ==
  /\ pc = "brackets"
  /\ \E i, j \in 1..Len(allMatches) :
       i < j /\ allMatches[i] = allMatches[j] /\ allMatches[i].winnerId = allMatches[i].loserId
  /\ \E tree \in BracketTrees :
       /\ tree.attributes.winnerName = tree.attributes.loserName
       /\ Len(tree.children) = 2

\* the indices of the matches of round childRound that id won
Feeders(slice, childRound, id) ==
  { i \in 1..Len(slice) : slice[i].round = childRound /\ slice[i].winnerId = id }

\* node is the node of match M, and below it every side with no feeder
\* match is the BYE leaf of that side's player
RECURSIVE ByeWhereNoFeeder(_, _, _, _)
ByeWhereNoFeeder(node, M, slice, playerMap) ==
  LET childRound == roundPrecedence(M.round)
  IN  IF IsNull(childRound) THEN node.children = << >>
      ELSE /\ Len(node.children) = 2
           /\ \A side \in 1..2 :
                LET id == IF side = 1 THEN M.winnerId ELSE M.loserId
                    feeders == Feeders(slice, Val(childRound), id)
                    playerName == PlayerNameOf(playerMap, id)
                IN  IF feeders = {}
                    THEN node.children[side] =
                           [name |-> playerName,
                            attributes |-> [round |-> Val(childRound),
                                            winnerName |-> playerName,
                                            loserName |-> "BYE", score |-> "BYE"],
                            children |-> << >>]
                    ELSE ByeWhereNoFeeder(
                           node.children[side],
                           slice[CHOOSE i \in feeders : \A j \in feeders : i <= j],
                           slice, playerMap)

\* C13: in every bracket written, a match of a round with a precedence entry
\* has two children, and a side whose player won no match of the child round
\* is the childless node {round: childRound, winnerName: player,
\* loserName: 'BYE', score: 'BYE'}.
C13_ByeLeaves ==
  pc = "brackets" =>
    \A i \in 1..Len(tournamentsMap) :
      LET tournament == tournamentsMap[i].value
          slice == TournamentMatches(allMatches, tournament)
      IN  MapHas(brackets, tournament.id) =>
            ByeWhereNoFeeder(MapGet(brackets, tournament.id), FinalMatch(slice), slice,
                             PlayerMapOf(MapValues(playersMap), << >>))

\* a Final and two Semifinals with no Quarterfinal: each Semifinal node has
\* two BYE leaves of round QF
C13_Witness ==
  /\ pc = "brackets"
  /\ \A i \in 1..Len(allMatches) : allMatches[i].round \in {"F", "SF"}
  /\ \E tree \in BracketTrees :
       /\ tree.attributes.round = "F"
       /\ \A side \in 1..2 :
            /\ tree.children[side].attributes.round = "SF"
            /\ ~IsBye(tree.children[side])
            /\ Len(tree.children[side].children) = 2
            /\ \A under \in 1..2 :
                 /\ IsBye(tree.children[side].children[under])
                 /\ tree.children[side].children[under].attributes.round = "QF"

\* C14: in every node with children, the first child is the subtree of the
\* node's winner and the second that of its loser.
C14_WinnerSideFirst ==
  \A n \in BracketNodes :
    n.children # << >> =>
      /\ n.children[1].attributes.winnerName = n.attributes.winnerName
      /\ n.children[2].attributes.winnerName = n.attributes.loserName

\* a node of two players whose first child is a found match and whose
\* second is a BYE node
C14_Witness ==
  \E n \in BracketNodes :
    /\ n.attributes.winnerName = "A" /\ n.attributes.loserName = "B"
    /\ Len(n.children) = 2
    /\ ~IsBye(n.children[1]) /\ n.children[1].attributes.loserName = "B"
    /\ IsBye(n.children[2]) /\ n.children[2].attributes.winnerName = "B"

Warned(tournament) == \E i \in 1..Len(log) : log[i] = ConsoleWarn(tournament.name)

IsNameMapKey(formalName) == ~IsNull(formalName) /\ MapHas(nameMap, Val(formalName))

\* C16: after a run of addCommonNames a tournament whose name is a key of
\* nameMap has the commonName of the table, one whose name is no key has no
\* commonName, and the tournaments are as many, in the order and with the
\* other fields they had.
C16_PassReflectsTable ==
  (pc = "augment" /\ runNo >= 1) =>
    LET before == Val(prevOutput)
        after == Val(tournamentsFile)
    IN  /\ Len(after) = Len(before)
        /\ \A i \in 1..Len(before) :
             /\ IF IsNameMapKey(ObjGet(before[i], "name"))
                THEN ObjGet(after[i], "commonName") =
                       Some(MapGet(nameMap, Val(ObjGet(before[i], "name"))))
                ELSE ~ObjHas(after[i], "commonName")
             /\ ObjRest(after[i], "commonName") = ObjRest(before[i], "commonName")

\* one run over a tournament of the table with another commonName, and over
\* a tournament not of the table with a commonName
C16_Witness ==
  /\ pc = "augment" /\ runNo = 1
  /\ Len(Val(prevOutput)) = 2
  /\ ObjGet(Val(prevOutput)[1], "name") = Some("ASB Classic")
  /\ ObjGet(Val(prevOutput)[1], "commonName") = Some("Old")
  /\ ObjGet(Val(tournamentsFile)[1], "commonName") = Some("Auckland Open")
  /\ ObjGet(Val(prevOutput)[2], "name") = Some("X")
  /\ ObjHas(Val(prevOutput)[2], "commonName")
  /\ ~ObjHas(Val(tournamentsFile)[2], "commonName")

\* C17: a second run of addCommonNames leaves tournaments.json as the first
\* run left it, the order of the fields of every tournament included.
C17_SecondPassChangesNothing ==
  (pc = "augment" /\ runNo >= 2) => tournamentsFile = prevOutput

\* after two runs: a tournament whose commonName was there before the first
\* run, in the middle of its fields, and a tournament without commonName
C17_Witness ==
  /\ pc = "augment" /\ runNo = 2
  /\ Len(Val(tournamentsFile)) = 2
  /\ Len(Val(tournamentsFile)[1]) = 5
  /\ Val(tournamentsFile)[1][4] = [key |-> "commonName", value |-> "Auckland Open"]
  /\ ~ObjHas(Val(tournamentsFile)[2], "commonName")

\* C18: no row aborts ingestion: no run ends in the handler of a thrown
\* error, and a run that found input files has written its output files
\* when the process ends.
C18_RowDefectNeverAborts ==
  /\ pc # "aborted"
  /\ (~IsNull(exitCode) /\ nFiles > 0) => ~IsNull(output)

\* C19: a run that finds no input file logs an error, writes no output file
\* and ends with a nonzero exit status.
C19_NoInputIsFatal ==
  (pc = "noinput" /\ ~IsNull(exitCode)) =>
    /\ \E i \in 1..Len(log) : log[i].level = "error"
    /\ IsNull(output)
    /\ Val(exitCode) # 0

\* C20: the Match records of one run have different ids, and so every
\* Derived record has the matchId of exactly one Match.
C20_MatchIdsUnique ==
  /\ \A i, j \in 1..Len(allMatches) : i # j => allMatches[i].id # allMatches[j].id
  /\ \A i \in 1..Len(allDerived) :
       Cardinality({ j \in 1..Len(allMatches) : allMatches[j].id = allDerived[i].matchId }) = 1

\* C21: once the store is initialised from the URL, every change of a filter
\* value, the first one after the page load included, is followed by
\* syncToURL: the URL holds the parameters of the current filter values.
C21_UrlFollowsState ==
  (pc = "loaded" /\ ~isInitialLoad) => url = syncToURL(store)

\* the slots of a row before the first slot that has neither score
SetPrefix(row) ==
  IF \E i \in 1..5 : row.W[i] = "" /\ row.L[i] = ""
  THEN (CHOOSE i \in 1..5 :
          /\ row.W[i] = "" /\ row.L[i] = ""
          /\ \A j \in 1..(i - 1) : ~(row.W[j] = "" /\ row.L[j] = "")) - 1
  ELSE 5

\* C22: the set scores of a match are those of the slots 1..5 before the
\* first slot with neither score; a score missing on one side of a slot is
\* 0, and the scores that are there are kept as they are.
C22_SetsArePrefix ==
  EmittedMatch =>
    /\ Len(LastMatch.w) = SetPrefix(LastRow) /\ Len(LastMatch.l) = SetPrefix(LastRow)
    /\ \A i \in 1..SetPrefix(LastRow) :
         /\ LastMatch.w[i] = (IF LastRow.W[i] = "" THEN 0 ELSE Val(parseInt(LastRow.W[i])))
         /\ LastMatch.l[i] = (IF LastRow.L[i] = "" THEN 0 ELSE Val(parseInt(LastRow.L[i])))

\* a match of a row whose first slot is empty and whose second is not, after
\* a match of a row with the loser's score missing in the second slot
C22_Witness ==
  /\ EmittedMatch
  /\ LastRow.W = <<"", "7", "", "", "">> /\ LastRow.L = <<"", "5", "", "", "">>
  /\ LastMatch.w = << >> /\ LastMatch.l = << >>
  /\ \E i \in 1..(Len(allMatches) - 1) :
       allMatches[i].w = <<6, 7>> /\ allMatches[i].l = <<4, 0>>

\* node shows the players of match M, and below it every side with feeder
\* matches shows, in the same way, the first of them in the order of slice
RECURSIVE FirstFeederUsed(_, _, _, _)
FirstFeederUsed(node, M, slice, playerMap) ==
  /\ node.attributes.round = M.round
  /\ node.attributes.winnerName = PlayerNameOf(playerMap, M.winnerId)
  /\ node.attributes.loserName = PlayerNameOf(playerMap, M.loserId)
  /\ \A side \in 1..Len(node.children) :
       LET id == IF side = 1 THEN M.winnerId ELSE M.loserId
           feeders == Feeders(slice, node.children[side].attributes.round, id)
       IN  feeders # {} =>
             FirstFeederUsed(node.children[side],
                             slice[CHOOSE i \in feeders : \A j \in feeders : i <= j],
                             slice, playerMap)

\* C23: where a tournament has several Finals, or a player won several
\* matches of the child round, the bracket is built from the first of them
\* in the order of the match list.
C23_FirstInListOrder ==
  pc = "brackets" =>
    \A t \in 1..Len(tournamentsMap) :
      LET tournament == tournamentsMap[t].value
          slice == SelectSeq(allMatches, LAMBDA m : m.tournamentId = tournament.id)
          finals == { i \in 1..Len(slice) : slice[i].round = "F" }
      IN  MapHas(brackets, tournament.id) =>
            FirstFeederUsed(MapGet(brackets, tournament.id),
                            slice[CHOOSE i \in finals : \A j \in finals : i <= j],
                            slice, PlayerMapOf(MapValues(playersMap), << >>))

\* a draw with two Finals and two Semifinals that the same player won
\* against different players: the tree shows the losers of the first ones
C23_Witness ==
  /\ pc = "brackets"
  /\ \E i, j \in 1..Len(allMatches) :
       /\ i < j
       /\ allMatches[i] = BracketMatch("t1", "F", "a", "b")
       /\ allMatches[j] = BracketMatch("t1", "F", "a", "c")
  /\ \E i, j \in 1..Len(allMatches) :
       /\ i < j
       /\ allMatches[i] = BracketMatch("t1", "SF", "a", "b")
       /\ allMatches[j] = BracketMatch("t1", "SF", "a", "c")
  /\ MapGet(brackets, "t1").attributes.loserName = "B"
  /\ MapGet(brackets, "t1").children[1].attributes.loserName = "B"

\* the pairs w[i]-l[i] from set i on, one space between two pairs
RECURSIVE SetPairs(_, _, _)
SetPairs(w, l, i) ==
  IF i > Len(w) THEN ""
  ELSE DecStr(w[i]) \o "-" \o DecStr(l[i]) \o (IF i < Len(w) THEN " " ELSE "")
       \o SetPairs(w, l, i + 1)

\* node has the score of match M, and below it every node built from a
\* match has the score of that match
RECURSIVE ScoreOfMatch(_, _, _)
ScoreOfMatch(node, M, slice) ==
  /\ node.attributes.score =
       SetPairs(M.w, M.l, 1) \o (IF M.comment = Some("Retired") THEN " (RET)" ELSE "")
  /\ \A side \in 1..Len(node.children) :
       LET id == IF side = 1 THEN M.winnerId ELSE M.loserId
           feeders == Feeders(slice, node.children[side].attributes.round, id)
       IN  feeders # {} =>
             ScoreOfMatch(node.children[side],
                          slice[CHOOSE i \in feeders : \A j \in feeders : i <= j], slice)

\* C24: the score of every node of a bracket tree that is built from a match
\* is the pairs w-l of the sets of the match with one space between them,
\* and after them ' (RET)' exactly when the comment of the match is
\* 'Retired'.
C24_ScoreOfEveryMatchNode ==
  pc = "brackets" =>
    \A t \in 1..Len(tournamentsMap) :
      LET tournament == tournamentsMap[t].value
          slice == SelectSeq(allMatches, LAMBDA m : m.tournamentId = tournament.id)
          finals == { i \in 1..Len(slice) : slice[i].round = "F" }
      IN  MapHas(brackets, tournament.id) =>
            ScoreOfMatch(MapGet(brackets, tournament.id),
                         slice[CHOOSE i \in finals : \A j \in finals : i <= j], slice)

\* a Final of two sets over a retirement with no set and a walkover with no
\* set
C24_Witness ==
  /\ pc = "brackets"
  /\ MapHas(brackets, "t1")
  /\ MapGet(brackets, "t1").attributes.score = "6-4 6-3"
  /\ Len(MapGet(brackets, "t1").children) = 2
  /\ MapGet(brackets, "t1").children[1].attributes.score = " (RET)"
  /\ MapGet(brackets, "t1").children[2].attributes.score = ""
  /\ \E i \in 1..Len(allMatches) :
       allMatches[i].comment = Some("Walkover") /\ allMatches[i].w = << >>

\* hash * 31 + c wrapped to 32 bits, on the halves of hash
TimesThirtyOnePlus(h, c) ==
  LET lo == h[2] * 31 + c
  IN  <<(h[1] * 31 + lo \div Half) % Half, lo % Half>>

\* the recurrence hash = hash * 31 + charCode over str, from 0
Recurrence(str) ==
  LET hashes[i \in 0..Len(str)] ==
        IF i = 0 THEN <<0, 0>> ELSE TimesThirtyOnePlus(hashes[i - 1], charCode(Ch(str, i)))
  IN  hashes[Len(str)]

\* |H| of the signed value of the bit pattern h
Magnitude(h) ==
  IF h[1] < Half \div 2 THEN h
  ELSE IF h[2] = 0 THEN <<(Half - h[1]) % Half, 0>>
  ELSE <<Half - 1 - h[1], Half - h[2]>>

TournamentKeyString(t) == DecStr(t.year) \o "-" \o t.name \o "-" \o t.location

MatchKeyString(m) ==
  m.tournamentId \o "-" \o m.date \o "-" \o m.round \o "-" \o m.winnerId \o "-" \o m.loserId

\* C25: the digits of a Tournament or Match id are those of |H|, H being
\* the 32-bit wrap of hash = hash * 31 + charCode over the key string from
\* 0 (the shift form of the code gives the same value), and |H| is in
\* 0..2^31.
C25_IdIsWrappedPolynomialHash ==
  /\ \A i \in 1..Len(tournamentsMap) :
       LET t == tournamentsMap[i].value
           H == Recurrence(TournamentKeyString(t))
       IN  /\ t.id = "t" \o DecStr32(Magnitude(H))
           /\ Magnitude(H)[1] < Half \div 2 \/ Magnitude(H) = <<Half \div 2, 0>>
  /\ \A i \in 1..Len(allMatches) :
       LET m == allMatches[i]
           H == Recurrence(MatchKeyString(m))
       IN  /\ m.id = "m" \o DecStr32(Magnitude(H))
           /\ Magnitude(H)[1] < Half \div 2 \/ Magnitude(H) = <<Half \div 2, 0>>

\* ids of a negative and of a non-negative hash, one of them of a key of
\* more than thirty characters
C25_Witness ==
  /\ \E i \in 1..Len(allMatches) :
       /\ Recurrence(MatchKeyString(allMatches[i]))[1] >= Half \div 2
       /\ Len(MatchKeyString(allMatches[i])) > 30
  /\ \E i \in 1..Len(allMatches) : Recurrence(MatchKeyString(allMatches[i]))[1] < Half \div 2
  /\ \E i \in 1..Len(tournamentsMap) :
       Recurrence(TournamentKeyString(tournamentsMap[i].value))[1] >= Half \div 2

\* the day a date column of the input rows names, "" for a column that is
\* neither YYYY-MM-DD nor MM/DD/YYYY nor MM/DD/YY
CalendarDay(dateStr) ==
  CASE dateStr = "01/02/24" -> "2024-01-02"
    [] dateStr = "01/02/2023" -> "2023-01-02"
    [] dateStr = "2023-05-06" -> "2023-05-06"
    [] OTHER -> ""

\* C26: parseDate fails on no date column: a column YYYY-MM-DD, MM/DD/YYYY
\* or MM/DD/YY gives the ISO string of the day it names, and every other
\* column gives '', so that the row is skipped.
C26_ParseDateTotal ==
  (~IsNull(last) /\ ~MissingEssential(LastRow)) =>
    /\ LastKind # "throw"
    /\ parseDate(LastRow.Date, tzEast) = [ok |-> TRUE, value |-> CalendarDay(LastRow.Date)]

\* the labels of the rounds and the Round codes, each with its code
RoundVocabulary ==
  { <<"1st Round", "1R">>, <<"2nd Round", "2R">>, <<"3rd Round", "3R">>,
    <<"4th Round", "4R">>, <<"Quarterfinals", "QF">>, <<"Semifinals", "SF">>,
    <<"The Final", "F">>, <<"Final", "F">>, <<"Round Robin", "RR">>,
    <<"1R", "1R">>, <<"2R", "2R">>, <<"3R", "3R">>, <<"4R", "4R">>, <<"QF", "QF">>,
    <<"SF", "SF">>, <<"F", "F">>, <<"RR", "RR">>, <<"Q1", "Q1">>, <<"Q2", "Q2">>,
    <<"Q3", "Q3">> }

\* the code of the entry of the vocabulary that round is in some letter
\* case, '1R' for a round that is none
CodeOfRound(round) ==
  LET entries == { e \in RoundVocabulary : toLowerCase(e[1]) = toLowerCase(round) }
  IN  IF entries = {} THEN "1R" ELSE (CHOOSE e \in entries : TRUE)[2]

\* C27: normalizeRound gives every label of a round and every Round code, in
\* any letter case, its own Round code, and '1R' to every other input.
C27_RoundOfVocabulary ==
  EmittedMatch => LastMatch.round = CodeOfRound(LastRow.Round)

\* C28: whatever actions of the filter store have run (setPlayerIds,
\* togglePlayer, clearFilters, loadFromURL, the other setters), at most
\* three players are pinned.
C28_AtMostThreePinned ==
  pc = "loaded" => Len(store.playerIds) <= 3

\* C29: a row that is skipped leaves the registry of players, the counters
\* of the slugs and the registry of tournaments as they were, and so every
\* player and every tournament registered is in a match.
C29_SkippedRowRegistersNothing ==
  /\ \A i \in 1..Len(playersMap) :
       \E j \in 1..Len(allMatches) :
         playersMap[i].value.id \in {allMatches[j].winnerId, allMatches[j].loserId}
  /\ \A i \in 1..Len(tournamentsMap) :
       \E j \in 1..Len(allMatches) : allMatches[j].tournamentId = tournamentsMap[i].value.id

\* C30: whenever no fetch of a bracket is under way, BracketPage shows no
\* bracket or the bracket fetched for the tournament that is selected; a
\* late response for a tournament selected before does not replace it.
C30_BracketOfSelectedTournament ==
  (pc = "page" /\ fetches = << >>) =>
    \/ IsNull(page.bracketData)
    \/ page.bracketData = Some(page.selectedTournamentId)
====
